---- MODULE Spec2Model ----
(***************************************************************************)
(* Boolean algebra of planar regions (compmec/shape).                      *)
(*                                                                         *)
(* Regions are EmptyShape, WholeShape, SimpleShape (one positive Jordan    *)
(* curve), ConnectedShape (positive shape with holes) and DisjointShape.   *)
(* The model covers polygonal boundaries (segments of degree 1) whose      *)
(* coordinates are exact rationals, as the source computes with Fraction.  *)
(*                                                                         *)
(* A point is <<X, Y, W>> (the point (X/W, Y/W), W > 0, lowest terms), a   *)
(* parameter is a fraction <<n, d>>, a segment is <<P, Q>> (its control    *)
(* points), a Jordan curve is the sequence of its segments.  Indices of    *)
(* segments and curves are 0-based as in the source.                       *)
(***************************************************************************)
EXTENDS Integers, Sequences, FiniteSets, TLC

\* ------------------------------------------------------------------------
\* Exact arithmetic
\* ------------------------------------------------------------------------

Abs(n) == IF n < 0 THEN -n ELSE n

RECURSIVE GCD(_, _)
GCD(a, b) == IF b = 0 THEN a ELSE GCD(b, a % b)

\* fractions.Fraction: lowest terms, positive denominator
Fraction(n, d) ==
    LET s == IF d < 0 THEN -1 ELSE 1
        g == GCD(Abs(n), Abs(d))
    IN  <<(s * n) \div g, (s * d) \div g>>

FracLess(f, g) == f[1] * g[2] < g[1] * f[2]

\* The value None that stands for the parameters of two equal segments
None == <<0, 0>>

\* polygon.Point2D with exact coordinates X/W, Y/W
Point2D(X, Y, W) ==
    LET g == GCD(GCD(Abs(X), Abs(Y)), W)
    IN  <<X \div g, Y \div g, W \div g>>

Pt(x, y) == <<x, y, 1>>

\* Sign-exact cross product (p - o) x (q - o); the positive scale is dropped
Cross(o, p, q) ==
    LET px == p[1] * o[3] - o[1] * p[3]
        py == p[2] * o[3] - o[2] * p[3]
        qx == q[1] * o[3] - o[1] * q[3]
        qy == q[2] * o[3] - o[2] * q[3]
    IN  px * qy - py * qx

\* Sign-exact inner product (p - o) . (q - o)
Inner(o, p, q) ==
    LET px == p[1] * o[3] - o[1] * p[3]
        py == p[2] * o[3] - o[2] * p[3]
        qx == q[1] * o[3] - o[1] * q[3]
        qy == q[2] * o[3] - o[2] * q[3]
    IN  px * qx + py * qy

XLeq(p, q) == p[1] * q[3] <= q[1] * p[3]
YLeq(p, q) == p[2] * q[3] <= q[2] * p[3]
YLess(p, q) == p[2] * q[3] < q[2] * p[3]

\* ------------------------------------------------------------------------
\* curve.py : PlanarCurve of degree 1
\* ------------------------------------------------------------------------

\* PlanarCurve.eval at the parameter node = <<n, d>>
PlanarCurve_eval(seg, node) ==
    LET P == seg[1]
        Q == seg[2]
        n == node[1]
        d == node[2]
    IN  Point2D(P[1] * Q[3] * (d - n) + Q[1] * P[3] * n,
                P[2] * Q[3] * (d - n) + Q[2] * P[3] * n,
                P[3] * Q[3] * d)

\* PlanarCurve.__contains__: the point lies on the segment
PlanarCurve_contains(seg, point) ==
    /\ Cross(seg[1], seg[2], point) = 0
    /\ Inner(point, seg[1], seg[2]) <= 0

\* PlanarCurve.split([node]) -> (left, right)
PlanarCurve_split(seg, node) ==
    LET M == PlanarCurve_eval(seg, node)
    IN  <<(<<seg[1], M>>), (<<M, seg[2]>>)>>

\* PlanarCurve.invert: control points in reverse order
PlanarCurve_invert(seg) == <<seg[2], seg[1]>>

\* PlanarCurve.unite([seg0, seg1]) succeeds when the seam is removable:
\* both segments on one line, chained, pointing the same way
CanUnite(seg0, seg1) ==
    /\ seg0[2] = seg1[1]
    /\ Cross(seg0[1], seg0[2], seg1[2]) = 0
    /\ Inner(seg0[2], seg0[1], seg1[2]) < 0

PlanarCurve_unite(seg0, seg1) == <<seg0[1], seg1[2]>>

\* IntegratePlanar.winding_number_linear summed as a signed crossing: the
\* contribution of the segment to the winding number about point, counted on
\* the horizontal ray to the right of point (+1 upward, -1 downward)
winding_number_linear(seg, point) ==
    IF YLeq(seg[1], point) /\ YLess(point, seg[2])
          /\ Cross(seg[1], seg[2], point) > 0
    THEN 1
    ELSE IF YLeq(seg[2], point) /\ YLess(point, seg[1])
               /\ Cross(seg[1], seg[2], point) < 0
         THEN -1
         ELSE 0

\* ------------------------------------------------------------------------
\* jordancurve.py : IntersectionBeziers
\* ------------------------------------------------------------------------

is_equal_controlpoints(cptsa, cptsb) ==
    /\ Len(cptsa) = Len(cptsb)
    /\ \A i \in 1..Len(cptsa) : cptsa[i] = cptsb[i]

\* intersection_bezier for two segments: the set of pairs (u, v) with
\* A(u) = B(v).  Equal control points give the pair (None, None); parallel
\* segments make the Newton matrix singular (denom = 0) and give nothing; for
\* the others Newton's iteration on the linear system lands on the crossing of
\* the two lines, is clamped to [0, 1] and survives the final distance test
\* exactly when the crossing lies on both segments (NewtonRoot).
NewtonRoot(ui, vj) ==
    IF /\ 0 <= ui[1] /\ ui[1] <= ui[2]
       /\ 0 <= vj[1] /\ vj[1] <= vj[2]
    THEN {<<ui, vj>>}
    ELSE {}

intersection_bezier(cptsa, cptsb) ==
    IF is_equal_controlpoints(cptsa, cptsb) THEN {<<None, None>>}
    ELSE
      LET P == cptsa[1]
          Q == cptsa[2]
          R == cptsb[1]
          S == cptsb[2]
          L == P[3] * Q[3] * R[3] * S[3]
          sx(p) == p[1] * (L \div p[3])
          sy(p) == p[2] * (L \div p[3])
          dax == sx(Q) - sx(P)
          day == sy(Q) - sy(P)
          dbx == sx(S) - sx(R)
          dby == sy(S) - sy(R)
          rx == sx(R) - sx(P)
          ry == sy(R) - sy(P)
          denom == dax * dby - day * dbx
          unum == rx * dby - ry * dbx
          vnum == rx * day - ry * dax
      IN  IF denom = 0 THEN {}
          ELSE NewtonRoot(Fraction(unum, denom), Fraction(vnum, denom))

\* ------------------------------------------------------------------------
\* jordancurve.py : JordanCurve
\* ------------------------------------------------------------------------

RECURSIVE SeqLCM(_)
SeqLCM(ws) ==
    IF ws = <<>> THEN 1
    ELSE LET r == SeqLCM(Tail(ws))
         IN  (Head(ws) * r) \div GCD(Head(ws), r)

\* JordanCurve.from_vertices: one segment of degree 1 per vertex, closed
from_vertices(vertices) ==
    [i \in 1..Len(vertices) |->
        <<vertices[i], vertices[(i % Len(vertices)) + 1]>>]

\* JordanCurve.segments (setter): the assertion that every segment starts
\* where the one before it ends (the last segment is not compared with the
\* first)
segments_setter_ok(beziers) ==
    \A i \in 1..(Len(beziers) - 1) : beziers[i + 1][1] = beziers[i][2]

\* IntegrateJordan.area, as the fraction 2 * area
RECURSIVE SumArea2(_, _, _)
SumArea2(jordan, L, i) ==
    IF i > Len(jordan) THEN 0
    ELSE LET P == jordan[i][1]
             Q == jordan[i][2]
             px == P[1] * (L \div P[3])
             py == P[2] * (L \div P[3])
             qx == Q[1] * (L \div Q[3])
             qy == Q[2] * (L \div Q[3])
         IN  (px + qx) * (qy - py) + SumArea2(jordan, L, i + 1)

JordanW(jordan) ==
    SeqLCM([i \in 1..(2 * Len(jordan)) |->
               jordan[(i + 1) \div 2][2 - (i % 2)][3]])

IntegrateJordan_area2(jordan) ==
    LET L == JordanW(jordan)
    IN  Fraction(SumArea2(jordan, L, 1), L * L)

\* JordanCurve.lenght (and float(jordan)): only its sign is modelled, the
\* length taken positive when the area is positive and negative otherwise
lenght_sign(jordan) == IF IntegrateJordan_area2(jordan)[1] > 0 THEN 1 ELSE -1

\* JordanCurve.__contains__: the point is on the boundary
JordanCurve_contains(jordan, point) ==
    \E i \in 1..Len(jordan) : PlanarCurve_contains(jordan[i], point)

\* JordanCurve.points(1): linspace(0, 1, 1, endpoint=False) is the single
\* parameter 0, so the start point of every segment, and the first one again
JordanCurve_points1(jordan) ==
    [i \in 1..(Len(jordan) + 1) |->
        IF i <= Len(jordan) THEN jordan[i][1] ELSE jordan[1][1]]

\* JordanCurve.invert (and __invert__ on a copy)
JordanCurve_invert(jordan) ==
    [i \in 1..Len(jordan) |->
        PlanarCurve_invert(jordan[Len(jordan) + 1 - i])]

\* JordanCurve.clean: unite the first adjacent pair that unites, start again
RECURSIVE JordanCurve_clean(_)
JordanCurve_clean(segments) ==
    LET n == Len(segments)
        nxt(i) == (i % n) + 1
        can == {i \in 1..n : CanUnite(segments[i], segments[nxt(i)])}
    IN  IF n < 2 \/ can = {} THEN segments
        ELSE LET i == CHOOSE k \in can : \A m \in can : k <= m
                 j == nxt(i)
                 united == PlanarCurve_unite(segments[i], segments[j])
                 replaced == [segments EXCEPT ![i] = united]
                 popped == [k \in 1..(n - 1) |->
                              IF k < j THEN replaced[k] ELSE replaced[k + 1]]
             IN  JordanCurve_clean(popped)

\* JordanCurve.__eq__ after both copies are cleaned: the search for the
\* first segment of the other and the comparison loop, nsegments being
\* len(self.segments)
CleanedEq(selcopy, othcopy, nsegments) ==
      LET found == {k \in 1..Len(selcopy) : selcopy[k] = othcopy[1]}
          index == (CHOOSE k \in found : \A m \in found : k <= m) - 1
          pos(i) == (i + index) % nsegments
          \* first i at which the loop leaves: a bad index or a difference
          stops == {i \in 0..(Len(othcopy) - 1) :
                       \/ pos(i) >= Len(selcopy)
                       \/ selcopy[pos(i) + 1] # othcopy[i + 1]}
          first == CHOOSE i \in stops : \A m \in stops : i <= m
      IN  IF Len(selcopy) # Len(othcopy) THEN "False"
          ELSE IF found = {} THEN "False"
          ELSE IF stops = {} THEN "True"
          ELSE IF pos(first) >= Len(selcopy) THEN "IndexError"
          ELSE "False"

\* JordanCurve.__eq__ : "True", "False", or the exception it raises
JordanCurve_eq(self, other) ==
    IF \E i \in 1..(Len(other) + 1) :
           ~JordanCurve_contains(self, JordanCurve_points1(other)[i])
    THEN "False"
    ELSE CleanedEq(JordanCurve_clean(self), JordanCurve_clean(other),
                   Len(self))

\* The intersections of all pairs of segments with nothing removed
JordanCurve_intersection_all(self, other, equal_beziers, end_points) ==
    UNION {{<<ai - 1, bj - 1, it[1], it[2]>> :
               it \in intersection_bezier(self[ai], other[bj])} :
           <<ai, bj>> \in (1..Len(self)) \X (1..Len(other))}

\* JordanCurve.intersection: the set of (ai, bj, ui, vj)
JordanCurve_intersection(self, other, equal_beziers, end_points) ==
    LET inner(f) == 0 < f[1] /\ f[1] < f[2]
    IN  {t \in UNION {
                 {<<ai - 1, bj - 1, it[1], it[2]>> :
                     it \in intersection_bezier(self[ai], other[bj])} :
                 <<ai, bj>> \in (1..Len(self)) \X (1..Len(other))} :
            /\ equal_beziers \/ t[3] # None
            /\ end_points \/ t[3] = None \/ inner(t[3]) \/ inner(t[4])}

\* JordanCurve.__and__
JordanCurve_and(self, other) ==
    JordanCurve_intersection(self, other, FALSE, FALSE)

\* sorted() of a set of (index, node) positions
PosLess(p, q) == p[1] < q[1] \/ (p[1] = q[1] /\ FracLess(p[2], q[2]))

RECURSIVE SortedPositions(_)
SortedPositions(S) ==
    IF S = {} THEN <<>>
    ELSE LET m == CHOOSE p \in S : \A q \in S \ {p} : PosLess(p, q)
         IN  <<m>> \o SortedPositions(S \ {m})

\* JordanCurve.split(indexs, nodes), positions = zip(indexs, nodes); the loop
\* from the k-th pair on, with the segments so far and the count inserted
RECURSIVE SplitLoop(_, _, _, _)
SplitLoop(new_segments, positions, k, inserted) ==
    IF k > Len(positions) THEN new_segments
    ELSE
      LET index == positions[k][1]
          node == positions[k][2]
          \* abs(node) < 1e-6 or abs(node - 1) < 1e-6
          nearEnd == \/ Abs(node[1]) * 1000000 < node[2]
                     \/ Abs(node[1] - node[2]) * 1000000 < node[2]
          at == index + inserted + 1
          halves == PlanarCurve_split(new_segments[at], node)
          grown == [i \in 1..(Len(new_segments) + 1) |->
                      IF i < at THEN new_segments[i]
                      ELSE IF i = at THEN halves[1]
                      ELSE IF i = at + 1 THEN halves[2]
                      ELSE new_segments[i - 1]]
      IN  IF nearEnd THEN SplitLoop(new_segments, positions, k + 1, inserted)
          ELSE SplitLoop(grown, positions, k + 1, inserted + 1)

JordanCurve_split(self, positions) == SplitLoop(self, positions, 1, 0)

\* ------------------------------------------------------------------------
\* shape.py : Contains and FollowPath
\* ------------------------------------------------------------------------

Min(S) == CHOOSE k \in S : \A m \in S : k <= m

RECURSIVE SortedInts(_)
SortedInts(S) ==
    IF S = {} THEN <<>> ELSE <<Min(S)>> \o SortedInts(S \ {Min(S)})

RECURSIVE SumWinding(_, _, _)
SumWinding(jordan, point, i) ==
    IF i > Len(jordan) THEN 0
    ELSE winding_number_linear(jordan[i], point)
            + SumWinding(jordan, point, i + 1)

\* FollowPath.winding_number(jordan, point): IntegrateJordan.winding_number of
\* the curve moved by -point, as a fraction: 1/2 for a point of the boundary,
\* else the rounded sum over the segments
winding_number(jordan, point) ==
    IF JordanCurve_contains(jordan, point) THEN <<1, 2>>
    ELSE <<SumWinding(jordan, point, 1), 1>>

\* Contains.point_at_jordan
point_at_jordan(point, jordans) ==
    \E k \in 1..Len(jordans) : JordanCurve_contains(jordans[k], point)

\* Contains.point_in_open_jordan
point_in_open_jordan(point, jordans) ==
    \A k \in 1..Len(jordans) :
        LET wind == winding_number(jordans[k], point)
        IN  /\ ~(lenght_sign(jordans[k]) > 0 /\ wind # <<1, 1>>)
            /\ ~(lenght_sign(jordans[k]) < 0 /\ wind # <<0, 1>>)

\* Contains.point_in_closed_jordan
point_in_closed_jordan(point, jordans) ==
    \/ point_at_jordan(point, jordans)
    \/ point_in_open_jordan(point, jordans)

\* FollowPath.midpoints_inclosed: one flag per segment of jordan
midpoints_inclosed(jordan, limiters) ==
    [i \in 1..Len(jordan) |->
        point_in_closed_jordan(PlanarCurve_eval(jordan[i], <<1, 2>>), limiters)]

\* FollowPath.split_at_intersections from the intersections inters on: both
\* curves after the split, or the TypeError raised when a pair (index, None)
\* of two equal segments reaches sorted() and JordanCurve.split
SplitAt(jordana, jordanb, inters) ==
    IF \E t \in inters : t[3] = None
    THEN [err |-> "TypeError", a |-> jordana, b |-> jordanb]
    ELSE [err |-> "",
          a |-> JordanCurve_split(jordana,
                   SortedPositions({<<t[1], t[3]>> : t \in inters})),
          b |-> JordanCurve_split(jordanb,
                   SortedPositions({<<t[2], t[4]>> : t \in inters}))]

\* FollowPath.split_at_intersections
split_at_intersections(jordana, jordanb) ==
    SplitAt(jordana, jordanb,
            JordanCurve_intersection(jordana, jordanb, TRUE, FALSE))

\* FollowPath.split_jordans: the double loop from the k-th pair on
RECURSIVE SplitJordansLoop(_, _, _)

\* the pair (ia, ib) of the loop after split_at_intersections returned sp
SplitJordansPair(jordansa, jordansb, k, ia, ib, sp) ==
    IF sp.err # ""
    THEN [err |-> sp.err, a |-> jordansa, b |-> jordansb]
    ELSE SplitJordansLoop([jordansa EXCEPT ![ia] = sp.a],
                          [jordansb EXCEPT ![ib] = sp.b], k + 1)

\* the body of the loop for the pair (ia, ib)
SplitJordansBody(jordansa, jordansb, k, ia, ib) ==
    IF JordanCurve_and(jordansa[ia], jordansb[ib]) = {}
    THEN SplitJordansLoop(jordansa, jordansb, k + 1)
    ELSE SplitJordansPair(jordansa, jordansb, k, ia, ib,
             split_at_intersections(jordansa[ia], jordansb[ib]))

SplitJordansLoop(jordansa, jordansb, k) ==
    IF Len(jordansb) = 0 \/ k >= Len(jordansa) * Len(jordansb)
    THEN [err |-> "", a |-> jordansa, b |-> jordansb]
    ELSE SplitJordansBody(jordansa, jordansb, k,
                          (k \div Len(jordansb)) + 1, (k % Len(jordansb)) + 1)

split_jordans(jordansa, jordansb) == SplitJordansLoop(jordansa, jordansb, 0)

\* FollowPath.pursue_path: the while loop, matrix being the path so far
RECURSIVE PursueLoop(_, _, _, _)
PursueLoop(matrix, index_jordan, index_segment, jordans) ==
    LET iseg == index_segment % Len(jordans[index_jordan + 1])
        segment == jordans[index_jordan + 1][iseg + 1]
        last_point == segment[2]
        others == {i \in 0..(Len(jordans) - 1) :
                      /\ i # index_jordan
                      /\ JordanCurve_contains(jordans[i + 1], last_point)}
        i == Min(others)
        starts == {j \in 0..(Len(jordans[i + 1]) - 1) :
                      jordans[i + 1][j + 1][1] = last_point}
        grown == Append(matrix, <<index_jordan, iseg>>)
    IN  IF \E m \in 1..Len(matrix) : matrix[m] = <<index_jordan, iseg>>
        THEN matrix
        ELSE IF others = {}
        THEN PursueLoop(grown, index_jordan, iseg + 1, jordans)
        ELSE PursueLoop(grown, i,
                        IF starts = {} THEN iseg ELSE Min(starts), jordans)

pursue_path(index_jordan, index_segment, jordans) ==
    PursueLoop(<<>>, index_jordan, index_segment, jordans)

\* The indices where boolvector switches from true to false
switch_boolean_reversed(boolvector) ==
    LET nvals == Len(boolvector)
        prev(i) == IF i = 0 THEN nvals - 1 ELSE i - 1
    IN  SortedInts({i \in 0..(nvals - 1) :
                       boolvector[prev(i) + 1] /\ ~boolvector[i + 1]})

\* The switches from false to true without the one from the last element to
\* the first
switch_boolean_nowrap(boolvector) ==
    SortedInts({i \in 1..(Len(boolvector) - 1) :
                   ~boolvector[i] /\ boolvector[i + 1]})

\* FollowPath.switch_boolean: boolvector[i - 1] false and boolvector[i] true,
\* the element before the first being the last
switch_boolean(boolvector) ==
    LET nvals == Len(boolvector)
        prev(i) == IF i = 0 THEN nvals - 1 ELSE i - 1
    IN  SortedInts({i \in 0..(nvals - 1) :
                       ~boolvector[prev(i) + 1] /\ boolvector[i + 1]})

\* FollowPath.is_rotation
is_rotation(oneobj, other) ==
    LET hits == {k \in 1..Len(oneobj) : oneobj[k] = other[1]}
        rotation == Min(hits) - 1
        nelems == Len(other)
    IN  IF Len(oneobj) # Len(other) THEN FALSE
        ELSE IF Len(oneobj) = 0 THEN FALSE
        ELSE IF hits = {} THEN FALSE
        ELSE \A i \in 0..(nelems - 1) :
                 other[i + 1] = oneobj[((i + rotation) % nelems) + 1]

\* FollowPath.filter_rotations
RECURSIVE FilterLoop(_, _, _)
FilterLoop(matrix, k, filtered) ==
    IF k > Len(matrix) THEN filtered
    ELSE IF \E f \in 1..Len(filtered) : is_rotation(matrix[k], filtered[f])
    THEN FilterLoop(matrix, k + 1, filtered)
    ELSE FilterLoop(matrix, k + 1, Append(filtered, matrix[k]))

filter_rotations(matrix) == FilterLoop(matrix, 1, <<>>)

RECURSIVE Flatten(_)
Flatten(seqs) ==
    IF seqs = <<>> THEN <<>> ELSE Head(seqs) \o Flatten(Tail(seqs))

\* insiders, or `outsiders = [not inside for inside in insiders]`
Flags(insiders, negate) ==
    [i \in 1..Len(insiders) |-> IF negate THEN ~insiders[i] ELSE insiders[i]]

\* the paths pursued from every start index of one curve
PursueAll(global_index_jordan, start_indexs, all_jordans) ==
    [s \in 1..Len(start_indexs) |->
        pursue_path(global_index_jordan, start_indexs[s], all_jordans)]

\* the inner loop over the curves of jordans0, offset = k * len(jordansa)
SidePaths(jordans0, jordans1, offset, all_jordans, negate) ==
    Flatten([l \in 1..Len(jordans0) |->
        PursueAll(offset + l - 1,
                  switch_boolean(Flags(
                      midpoints_inclosed(jordans0[l], jordans1), negate)),
                  all_jordans)])

\* The loop shared by union_indexs and intersection_indexs over the curves
\* after split_jordans: for k = 0, 1 and every curve of that side, the paths
\* pursued from the indices where the flags switch to true
StartPaths(jordansa, jordansb, negate) ==
    filter_rotations(Flatten([k \in 1..2 |->
        SidePaths(IF k = 1 THEN jordansa ELSE jordansb,
                  IF k = 1 THEN jordansb ELSE jordansa,
                  (k - 1) * Len(jordansa), jordansa \o jordansb, negate)]))

\* union_indexs and intersection_indexs after split_jordans returned sp
IndexsAfterSplit(sp, negate) ==
    IF sp.err # "" THEN [err |-> sp.err, a |-> sp.a, b |-> sp.b, out |-> <<>>]
    ELSE [err |-> "", a |-> sp.a, b |-> sp.b,
          out |-> StartPaths(sp.a, sp.b, negate)]

\* FollowPath.union_indexs
union_indexs(jordansa, jordansb) ==
    IndexsAfterSplit(split_jordans(jordansa, jordansb), TRUE)

\* FollowPath.intersection_indexs
intersection_indexs(jordansa, jordansb) ==
    IndexsAfterSplit(split_jordans(jordansa, jordansb), FALSE)

\* FollowPath.indexs_to_jordan: the copied segments, given to from_segments
indexs_to_jordan(jordans, matrix_indexs) ==
    [m \in 1..Len(matrix_indexs) |->
        jordans[matrix_indexs[m][1] + 1][matrix_indexs[m][2] + 1]]

\* the curves of union_path and intersection_path, from_segments asserting
\* that each of them chains
NewJordans(ix, new_jordans) ==
    IF ix.err # "" THEN ix
    ELSE IF \E m \in 1..Len(new_jordans) :
                ~segments_setter_ok(new_jordans[m])
    THEN [ix EXCEPT !.err = "AssertionError", !.out = <<>>]
    ELSE [ix EXCEPT !.out = new_jordans]

\* union_path and intersection_path after the indices are known
PathsToJordans(ix) ==
    NewJordans(ix, [m \in 1..Len(ix.out) |->
                      indexs_to_jordan(ix.a \o ix.b, ix.out[m])])

\* FollowPath.union_path
union_path(jordansa, jordansb) ==
    PathsToJordans(union_indexs(jordansa, jordansb))

\* FollowPath.intersection_path
intersection_path(jordansa, jordansb) ==
    PathsToJordans(intersection_indexs(jordansa, jordansb))

\* ------------------------------------------------------------------------
\* shape.py : the regions
\* ------------------------------------------------------------------------

EmptyShape == [kind |-> "Empty"]
WholeShape == [kind |-> "Whole"]
Simple(jordan) == [kind |-> "Simple", jordancurve |-> jordan]
Connected(positive, holes) ==
    [kind |-> "Connected", positive |-> positive, holes |-> holes]
Disjoint(subshapes) == [kind |-> "Disjoint", subshapes |-> subshapes]
\* an exception that leaves the call
Error(name) == [kind |-> "Error", name |-> name]

IsError(x) == x.kind = "Error"

FracSub(f, g) == Fraction(f[1] * g[2] - g[1] * f[2], f[2] * g[2])

\* abs(f) > 1e-6
AboveTolerance(f) == Abs(f[1]) * 1000000 > f[2]

\* The smallest box around the curve holds the point (Box.__contains__)
InBox(jordan, point) ==
    /\ \E i \in 1..Len(jordan) : XLeq(jordan[i][1], point)
    /\ \E i \in 1..Len(jordan) : XLeq(point, jordan[i][1])
    /\ \E i \in 1..Len(jordan) : YLeq(jordan[i][1], point)
    /\ \E i \in 1..Len(jordan) : YLeq(point, jordan[i][1])

\* SimpleShape.__init__ and the setter of jordancurve
SimpleShape(jordancurve) ==
    IF lenght_sign(jordancurve) < 0 THEN Error("ValueError")
    ELSE Simple(jordancurve)

\* A SimpleShape.contains_point without the test of the boundary
SimpleShape_contains_point_open(self, point) ==
    LET jordan == self.jordancurve
        wind == winding_number(jordan, point)
    IN  IF ~InBox(jordan, point) THEN FALSE
        ELSE IF lenght_sign(jordan) > 0 THEN wind = <<1, 1>>
        ELSE wind = <<0, 1>>

\* SimpleShape.contains_point
SimpleShape_contains_point(self, point) ==
    LET jordan == self.jordancurve
        wind == winding_number(jordan, point)
    IN  IF ~InBox(jordan, point) THEN FALSE
        ELSE IF JordanCurve_contains(jordan, point) THEN TRUE
        ELSE IF lenght_sign(jordan) > 0 THEN wind = <<1, 1>>
        ELSE wind = <<0, 1>>

\* SimpleShape.contains_jordan_curve
SimpleShape_contains_jordan_curve(self, other) ==
    \A i \in 1..(Len(other) + 1) :
        SimpleShape_contains_point(self, JordanCurve_points1(other)[i])

\* SimpleShape.contains_shape
RECURSIVE SimpleShape_contains_shape(_, _)
SimpleShape_contains_shape(self, other) ==
    CASE other.kind = "Empty" -> TRUE
      [] other.kind = "Whole" -> FALSE
      [] other.kind = "Simple" ->
            SimpleShape_contains_jordan_curve(self, other.jordancurve)
      [] other.kind = "Connected" ->
            SimpleShape_contains_shape(self, other.positive)
      [] other.kind = "Disjoint" ->
            \A k \in 1..Len(other.subshapes) :
                SimpleShape_contains_shape(self, other.subshapes[k])

\* The property jordans of SimpleShape, ConnectedShape and DisjointShape
RECURSIVE jordans(_)
jordans(shape) ==
    CASE shape.kind = "Simple" -> <<shape.jordancurve>>
      [] shape.kind = "Connected" ->
            (IF shape.positive.kind = "Whole" THEN <<>>
             ELSE <<shape.positive.jordancurve>>)
            \o [k \in 1..Len(shape.holes) |->
                   JordanCurve_invert(shape.holes[k].jordancurve)]
      [] shape.kind = "Disjoint" ->
            Flatten([k \in 1..Len(shape.subshapes) |->
                        jordans(shape.subshapes[k])])
      [] OTHER -> <<>>

\* What split() leaves in a shape whose curves were given to FollowPath: the
\* curves that jordans hands out by reference (the curve of a SimpleShape, of
\* the positive part of a ConnectedShape) take the new segments, the inverted
\* copies made for the holes are lost
RECURSIVE WriteBack(_, _)
WriteBack(shape, newjordans) ==
    CASE shape.kind = "Simple" ->
            [shape EXCEPT !.jordancurve = newjordans[1]]
      [] shape.kind = "Connected" ->
            IF shape.positive.kind = "Whole" THEN shape
            ELSE [shape EXCEPT !.positive.jordancurve = newjordans[1]]
      [] shape.kind = "Disjoint" ->
            LET count(k) == Len(jordans(shape.subshapes[k]))
                before(k) == Len(Flatten([m \in 1..(k - 1) |->
                                   jordans(shape.subshapes[m])]))
            IN  [shape EXCEPT !.subshapes =
                   [k \in 1..Len(shape.subshapes) |->
                      WriteBack(shape.subshapes[k],
                                SubSeq(newjordans, before(k) + 1,
                                       before(k) + count(k)))]]
      [] OTHER -> shape

\* The first exception among the shapes of a list, if any
FirstError(shapes) ==
    LET bad == {k \in 1..Len(shapes) : IsError(shapes[k])}
    IN  IF bad = {} THEN EmptyShape ELSE shapes[Min(bad)]

HasError(shapes) == \E k \in 1..Len(shapes) : IsError(shapes[k])

RECURSIVE ShapeFromJordans(_)

\* copy() of EmptyShape, WholeShape and FiniteShape
copy(shape) ==
    IF shape.kind \in {"Empty", "Whole"} THEN shape
    ELSE ShapeFromJordans(jordans(shape))

\* ConnectedShape.__new__
ConnectedShape(positive, holes) ==
    LET kept == SelectSeq(holes, LAMBDA h : h.kind # "Empty")
        inside(h) == IF positive.kind = "Whole" THEN TRUE
                     ELSE SimpleShape_contains_shape(positive, h)
        bad == {k \in 1..Len(kept) :
                   kept[k].kind # "Simple" \/ ~inside(kept[k])}
    IN  IF Len(kept) = 0 THEN copy(positive)
        ELSE IF bad = {} THEN Connected(positive, kept)
        ELSE IF kept[Min(bad)].kind # "Simple" THEN Error("AssertionError")
        ELSE Error("ValueError")

\* DisjointShape.__new__
DisjointShape(subshapes) ==
    LET kept == SelectSeq(subshapes, LAMBDA h : h.kind # "Empty")
    IN  IF Len(kept) = 0 THEN EmptyShape
        ELSE IF \E k \in 1..Len(kept) :
                    kept[k].kind \notin {"Simple", "Connected"}
        THEN Error("AssertionError")
        ELSE IF Len(kept) = 1 THEN copy(kept[1])
        ELSE Disjoint(kept)

\* A ShapeFromJordans that classifies the list by its first curve only
ShapeFromJordans_first(jordans_) ==
    LET n == Len(jordans_)
        neg == [k \in 1..n |-> SimpleShape(JordanCurve_invert(jordans_[k]))]
        pos == [k \in 1..n |-> SimpleShape(jordans_[k])]
    IN  IF n = 0 THEN EmptyShape
        ELSE IF n = 1 /\ lenght_sign(jordans_[1]) > 0
        THEN SimpleShape(jordans_[1])
        ELSE IF lenght_sign(jordans_[1]) < 0
        THEN (IF HasError(neg) THEN FirstError(neg)
              ELSE ConnectedShape(WholeShape, neg))
        ELSE (IF HasError(pos) THEN FirstError(pos)
              ELSE DisjointShape(pos))

\* ShapeFromJordans
ShapeFromJordans(jordans_) ==
    LET n == Len(jordans_)
        neg == [k \in 1..n |-> SimpleShape(JordanCurve_invert(jordans_[k]))]
        pos == [k \in 1..n |-> SimpleShape(jordans_[k])]
    IN  IF n = 0 THEN EmptyShape
        ELSE IF n = 1 /\ lenght_sign(jordans_[1]) > 0
        THEN SimpleShape(jordans_[1])
        ELSE IF \A k \in 1..n : lenght_sign(jordans_[k]) < 0
        THEN (IF HasError(neg) THEN FirstError(neg)
              ELSE ConnectedShape(WholeShape, neg))
        ELSE IF \A k \in 1..n : lenght_sign(jordans_[k]) > 0
        THEN (IF HasError(pos) THEN FirstError(pos)
              ELSE DisjointShape(pos))
        ELSE Error("NotImplementedError")

\* ------------------------------------------------------------------------
\* shape.py : the operators.  A call returns Out(res, self, other): what it
\* returns (a region, or the exception that leaves it) and its two operands
\* as the call leaves them.
\* ------------------------------------------------------------------------

Out(res, self, other) == [res |-> res, self |-> self, other |-> other]

Swap(out) == Out(out.res, out.other, out.self)

\* The regions of SimpleShape(jordan) for each curve of a path result
SimpleShapes(new_jordans) ==
    [k \in 1..Len(new_jordans) |-> SimpleShape(new_jordans[k])]

\* ShapeFromJordans(new_jordans), or the exception of the path
PathShape(path) ==
    IF path.err # "" THEN Error(path.err) ELSE ShapeFromJordans(path.out)

\* The end of FiniteShape.__or__ and __and__: the region of the path, both
\* operands holding the curves as split
FollowedShape(self, other, path) ==
    Out(PathShape(path), WriteBack(self, path.a), WriteBack(other, path.b))

\* The end of FiniteShape.__sub__: the curves of other were inverted copies
FollowedDifference(self, other, path) ==
    Out(PathShape(path), WriteBack(self, path.a), other)

\* tuple(~jordan for jordan in jordans)
Inverted(jordans_) ==
    [k \in 1..Len(jordans_) |-> JordanCurve_invert(jordans_[k])]

\* FiniteShape.__or__
FiniteShape_or(self, other) ==
    CASE other.kind = "Whole" -> Out(WholeShape, self, other)
      [] other.kind = "Empty" -> Out(copy(self), self, other)
      [] OTHER -> FollowedShape(self, other,
                                union_path(jordans(self), jordans(other)))

\* FiniteShape.__and__
FiniteShape_and(self, other) ==
    CASE other.kind = "Whole" -> Out(copy(self), self, other)
      [] other.kind = "Empty" -> Out(EmptyShape, self, other)
      [] OTHER -> FollowedShape(self, other,
                      intersection_path(jordans(self), jordans(other)))

\* FiniteShape.__sub__
FiniteShape_sub(self, other) ==
    CASE other.kind = "Whole" -> Out(EmptyShape, self, other)
      [] other.kind = "Empty" -> Out(copy(self), self, other)
      [] OTHER -> FollowedDifference(self, other,
                      intersection_path(jordans(self),
                                        Inverted(jordans(other))))

\* WholeShape.__sub__
WholeShape_sub(other) ==
    CASE other.kind = "Empty" -> WholeShape
      [] other.kind = "Whole" -> EmptyShape
      [] other.kind = "Simple" -> ConnectedShape(WholeShape, <<other>>)
      [] other.kind = "Connected" ->
            LET outside ==
                  IF other.positive.kind = "Whole" THEN EmptyShape
                  ELSE ConnectedShape(WholeShape, <<other.positive>>)
            IN  IF IsError(outside) THEN outside
                ELSE DisjointShape(<<outside>> \o other.holes)
      [] OTHER -> Error("NotImplementedError")

\* __invert__ of EmptyShape, WholeShape and FiniteShape
invert(self) ==
    CASE self.kind = "Empty" -> WholeShape
      [] self.kind = "Whole" -> EmptyShape
      [] OTHER -> WholeShape_sub(self)

\* __or__ of every class but SimpleShape
Other_or(self, other) ==
    CASE self.kind = "Empty" -> Out(copy(other), self, other)
      [] self.kind = "Whole" -> Out(WholeShape, self, other)
      [] OTHER -> FiniteShape_or(self, other)

\* __and__ of every class but SimpleShape
Other_and(self, other) ==
    CASE self.kind = "Empty" -> Out(EmptyShape, self, other)
      [] self.kind = "Whole" -> Out(copy(other), self, other)
      [] OTHER -> FiniteShape_and(self, other)

\* DisjointShape(simple_shapes), or the exception of SimpleShape(jordan)
UnionOfSimple(simple_shapes) ==
    IF HasError(simple_shapes) THEN FirstError(simple_shapes)
    ELSE DisjointShape(simple_shapes)

\* The end of SimpleShape.__or__ after union_path returned path
FollowedUnion(self, other, path) ==
    Out(IF path.err # "" THEN Error(path.err)
        ELSE UnionOfSimple(SimpleShapes(path.out)),
        WriteBack(self, path.a), WriteBack(other, path.b))

\* assert len(simple_shapes) == 1; return simple_shapes[0]
OnlySimple(simple_shapes) ==
    IF HasError(simple_shapes) THEN FirstError(simple_shapes)
    ELSE IF Len(simple_shapes) # 1 THEN Error("AssertionError")
    ELSE simple_shapes[1]

\* The end of SimpleShape.__and__ after intersection_path returned path
FollowedIntersection(self, other, path) ==
    Out(IF path.err # "" THEN Error(path.err)
        ELSE OnlySimple(SimpleShapes(path.out)),
        WriteBack(self, path.a), WriteBack(other, path.b))

\* SimpleShape.__or__
SimpleShape_or(self, other) ==
    IF other.kind # "Simple" THEN Swap(Other_or(other, self))
    ELSE IF SimpleShape_contains_shape(other, self)
    THEN Out(copy(other), self, other)
    ELSE IF SimpleShape_contains_shape(self, other)
    THEN Out(copy(self), self, other)
    ELSE FollowedUnion(self, other,
             union_path(<<self.jordancurve>>, <<other.jordancurve>>))

\* An intersection that follows the paths even when the curves do not meet
SimpleShape_and_follow(self, other) ==
    IF other.kind # "Simple" THEN Swap(Other_and(other, self))
    ELSE IF SimpleShape_contains_shape(other, self)
    THEN Out(copy(self), self, other)
    ELSE IF SimpleShape_contains_shape(self, other)
    THEN Out(copy(other), self, other)
    ELSE FollowedIntersection(self, other,
             intersection_path(<<self.jordancurve>>, <<other.jordancurve>>))

\* SimpleShape.__and__
SimpleShape_and(self, other) ==
    IF other.kind # "Simple" THEN Swap(Other_and(other, self))
    ELSE IF SimpleShape_contains_shape(other, self)
    THEN Out(copy(self), self, other)
    ELSE IF SimpleShape_contains_shape(self, other)
    THEN Out(copy(other), self, other)
    ELSE IF JordanCurve_intersection(self.jordancurve, other.jordancurve,
                                     TRUE, TRUE) = {}
    THEN Out(EmptyShape, self, other)
    ELSE FollowedIntersection(self, other,
             intersection_path(<<self.jordancurve>>, <<other.jordancurve>>))

\* self | other
shape_or(self, other) ==
    IF self.kind = "Simple" THEN SimpleShape_or(self, other)
    ELSE Other_or(self, other)

\* self & other
shape_and(self, other) ==
    IF self.kind = "Simple" THEN SimpleShape_and(self, other)
    ELSE Other_and(self, other)

\* self - other
shape_sub(self, other) ==
    CASE self.kind = "Empty" -> Out(EmptyShape, self, other)
      [] self.kind = "Whole" -> Out(WholeShape_sub(other), self, other)
      [] OTHER -> FiniteShape_sub(self, other)

\* BaseShape.__xor__, (self - other) | (other - self): the union, after the
\* two differences first and second
XorUnion(first, second) ==
    IF IsError(second.res) THEN Out(second.res, second.other, second.self)
    ELSE Out(shape_or(first.res, second.res).res, second.other, second.self)

\* BaseShape.__xor__: the second difference, after the first
XorSecond(first) ==
    IF IsError(first.res) THEN first
    ELSE XorUnion(first, shape_sub(first.other, first.self))

\* self ^ other
shape_xor(self, other) == XorSecond(shape_sub(self, other))

\* other in self, for the classes the operators of this section reach
contains_shape(self, other) ==
    CASE self.kind = "Empty" -> other.kind = "Empty"
      [] self.kind = "Whole" -> TRUE
      [] self.kind = "Simple" -> SimpleShape_contains_shape(self, other)

\* ------------------------------------------------------------------------
\* shape.py : comparison.  x == y for two distinct objects (the one instance
\* of EmptyShape and of WholeShape apart): "True", "False" or the exception.
\* ------------------------------------------------------------------------

\* float(shape), as the fraction 2 * area; DisjointShape has no __float__
RECURSIVE SumHoles2(_, _)
SumHoles2(holes, k) ==
    IF k > Len(holes) THEN <<0, 1>>
    ELSE FracSub(SumHoles2(holes, k + 1),
                 IntegrateJordan_area2(holes[k].jordancurve))

float2(shape) ==
    CASE shape.kind = "Simple" -> IntegrateJordan_area2(shape.jordancurve)
      [] shape.kind = "Connected" ->
            IF shape.positive.kind = "Whole" THEN SumHoles2(shape.holes, 1)
            ELSE FracSub(SumHoles2(shape.holes, 1),
                         FracSub(<<0, 1>>,
                            IntegrateJordan_area2(shape.positive.jordancurve)))

\* SimpleShape.__eq__
SimpleShape_eq(self, other) ==
    IF other.kind # "Simple" THEN "False"
    ELSE JordanCurve_eq(self.jordancurve, other.jordancurve)

\* hole in holes, by SimpleShape.__eq__ of each hole of the list in turn
HoleIn(hole, holes) ==
    LET hits == {k \in 1..Len(holes) : SimpleShape_eq(holes[k], hole) # "False"}
    IN  IF hits = {} THEN "False" ELSE SimpleShape_eq(holes[Min(hits)], hole)

\* ConnectedShape.__eq__
ConnectedShape_eq(self, other) ==
    LET posEq == IF self.positive.kind = "Simple"
                 THEN SimpleShape_eq(self.positive, other.positive)
                 ELSE IF other.positive.kind = "Simple" THEN "False"
                 ELSE "True"
        tie(hs) == \E i, j \in 1..Len(hs) :
                      /\ i < j
                      /\ float2(hs[i]) = float2(hs[j])
        verdicts == [k \in 1..Len(self.holes) |->
                        HoleIn(self.holes[k], other.holes)]
        stop == {k \in 1..Len(verdicts) : verdicts[k] # "True"}
    IN  IF other.kind \in {"Empty", "Whole", "Simple"} THEN "False"
        ELSE IF other.kind = "Disjoint" THEN "TypeError"
        ELSE IF AboveTolerance(FracSub(float2(self), float2(other)))
        THEN "False"
        ELSE IF posEq # "True" THEN posEq
        ELSE IF Len(self.holes) # Len(other.holes) THEN "False"
        ELSE IF tie(self.holes) \/ tie(other.holes) THEN "TypeError"
        ELSE IF stop = {} THEN "True"
        ELSE verdicts[Min(stop)]

\* x == y
shape_eq(x, y) ==
    CASE x.kind = "Simple" -> SimpleShape_eq(x, y)
      [] x.kind = "Connected" -> ConnectedShape_eq(x, y)
      [] y.kind = "Simple" -> SimpleShape_eq(y, x)
      [] y.kind = "Connected" -> ConnectedShape_eq(y, x)
      [] x.kind = "Disjoint" \/ y.kind = "Disjoint" -> "False"
      [] OTHER -> IF x.kind = y.kind THEN "True" ELSE "False"

\* ------------------------------------------------------------------------
\* The program: two operands drawn from a catalogue of regions, and the
\* statements r = a | b, r = a & b, r = a - b, r = ~a, r = ~b, b = r
\* ------------------------------------------------------------------------

\* Number of operator calls in one run
MaxOps == 2

JordanPolygon(vertices) ==
    from_vertices([i \in 1..Len(vertices) |-> Pt(vertices[i][1], vertices[i][2])])

SquareA == JordanPolygon(<<(<<1, 0>>), (<<-1, 2>>), (<<-3, 0>>), (<<-1, -2>>)>>)
SquareB == JordanPolygon(<<(<<-1, 0>>), (<<1, -2>>), (<<3, 0>>), (<<1, 2>>)>>)
Big == JordanPolygon(<<(<<-2, -2>>), (<<2, -2>>), (<<2, 2>>), (<<-2, 2>>)>>)
Small == JordanPolygon(<<(<<-1, -1>>), (<<1, -1>>), (<<1, 1>>), (<<-1, 1>>)>>)
Left == JordanPolygon(<<(<<-2, -1>>), (<<-1, -1>>), (<<-1, 1>>), (<<-2, 1>>)>>)
Right == JordanPolygon(<<(<<1, -1>>), (<<2, -1>>), (<<2, 1>>), (<<1, 1>>)>>)
Notch == JordanPolygon(<<(<<-2, -2>>), (<<2, -2>>), (<<2, 2>>), (<<0, 0>>),
                         (<<-2, 2>>)>>)
Triangle == JordanPolygon(<<(<<0, 0>>), (<<1, 0>>), (<<0, 1>>)>>)

SimpleCatalogue ==
    {SimpleShape(j) : j \in {SquareA, SquareB, Big, Small, Left, Right,
                             Notch, Triangle}}

Catalogue ==
    {EmptyShape, WholeShape} \cup SimpleCatalogue \cup
    {ConnectedShape(WholeShape, <<SimpleShape(Small)>>),
     ConnectedShape(SimpleShape(Big), <<SimpleShape(Small)>>),
     ConnectedShape(WholeShape, <<SimpleShape(Left), SimpleShape(Right)>>),
     DisjointShape(<<SimpleShape(Left), SimpleShape(Right)>>)}

VARIABLES a, b, inA, inB, op, res, nops

\* The objects of EmptyShape and WholeShape: heap[i] is the class of the
\* object i, instE and instW are the class attributes __instance (0 for
\* None), x, y and r are references (0 before the first assignment), eop the
\* last statement and esteps the number of statements so far
VARIABLES heap, instE, instW, x, y, r, eop, esteps

\* One JordanCurve object and the SimpleShape that owns it: phase is "list"
\* before JordanCurve.from_segments, "curve" after it, "shape" after
\* SimpleShape(curve) and "error" after a raise; obj_segments is __segments,
\* obj_lenght and obj_vertices the caches __lenght and __vertices of the
\* curve, obj_area and obj_box the caches __area and __box of the shape
\* (None when empty), call the last call, value what it returned and ncalls
\* the number of calls so far
VARIABLES phase, obj_segments, obj_lenght, obj_vertices, obj_area, obj_box,
          call, value, ncalls

shapevars == <<a, b, inA, inB, op, res, nops>>

objvars == <<phase, obj_segments, obj_lenght, obj_vertices, obj_area,
             obj_box, call, value, ncalls>>

ewvars == <<heap, instE, instW, x, y, r, eop, esteps>>

vars == <<shapevars, ewvars, objvars>>

\* No object of EmptyShape or WholeShape was made
NoInstance ==
    /\ heap = <<>>
    /\ instE = 0
    /\ instW = 0
    /\ x = 0
    /\ y = 0
    /\ r = 0
    /\ eop = "init"
    /\ esteps = 0

\* No JordanCurve object was made
NoObject ==
    /\ phase = "none"
    /\ obj_segments = <<>>
    /\ obj_lenght = None
    /\ obj_vertices = None
    /\ obj_area = None
    /\ obj_box = None
    /\ call = "init"
    /\ value = None
    /\ ncalls = 0

Init ==
    /\ NoInstance
    /\ NoObject
    /\ a \in Catalogue
    /\ b \in Catalogue
    /\ inA = a
    /\ inB = b
    /\ op = "init"
    /\ res = EmptyShape
    /\ nops = 0

Apply(name, out) ==
    /\ nops < MaxOps
    /\ op' = name
    /\ inA' = a
    /\ inB' = b
    /\ res' = out.res
    /\ a' = out.self
    /\ b' = out.other
    /\ nops' = nops + 1
    /\ UNCHANGED <<ewvars, objvars>>

\* r = a | b
Or == Apply("or", shape_or(a, b))

\* r = a & b
And == Apply("and", shape_and(a, b))

\* r = a - b
Sub == Apply("sub", shape_sub(a, b))

\* r = a ^ b
Xor == Apply("xor", shape_xor(a, b))

\* r = ~a
Invert == Apply("invert", Out(invert(a), a, b))

\* r = ~b
InvertB == Apply("invertB", Out(invert(b), a, b))

\* b = r
KeepB ==
    /\ op # "init"
    /\ nops < MaxOps
    /\ ~IsError(res)
    /\ b' = res
    /\ UNCHANGED <<a, inA, inB, op, res, nops>>
    /\ UNCHANGED <<ewvars, objvars>>

Next == Or \/ And \/ Sub \/ Xor \/ Invert \/ InvertB \/ KeepB

Spec == Init /\ [][Next]_vars

\* ------------------------------------------------------------------------
\* shape.py : EmptyShape and WholeShape as objects.  A call takes the store
\* st = [heap, instE, instW] and returns Ret(st, val): the store it leaves
\* and the reference it returns.
\* ------------------------------------------------------------------------

\* Number of statements in one run
MaxSteps == 4

Store == [heap |-> heap, instE |-> instE, instW |-> instW]

Ret(st, val) == [st |-> st, val |-> val]

\* An EmptyShape.__new__ that makes a new object at every call
EmptyShape_new_always(st) ==
    Ret([st EXCEPT !.heap = Append(@, "EmptyShape"),
                   !.instE = Len(st.heap) + 1], Len(st.heap) + 1)

\* EmptyShape.__new__
EmptyShape_new(st) ==
    IF st.instE = 0
    THEN Ret([st EXCEPT !.heap = Append(@, "EmptyShape"),
                        !.instE = Len(st.heap) + 1], Len(st.heap) + 1)
    ELSE Ret(st, st.instE)

\* WholeShape.__new__
WholeShape_new(st) ==
    IF st.instW = 0
    THEN Ret([st EXCEPT !.heap = Append(@, "WholeShape"),
                        !.instW = Len(st.heap) + 1], Len(st.heap) + 1)
    ELSE Ret(st, st.instW)

\* cls(): the constructor call
Construct(st, cls) ==
    IF cls = "EmptyShape" THEN EmptyShape_new(st) ELSE WholeShape_new(st)

\* EmptyShape.copy and WholeShape.copy
EW_copy(st, self) == Ret(st, self)

\* EmptyShape.__or__ and WholeShape.__or__
EW_or(st, self, other) ==
    IF st.heap[self] = "EmptyShape" THEN EW_copy(st, other)
    ELSE Ret(st, self)

\* EmptyShape.__and__ and WholeShape.__and__
EW_and(st, self, other) ==
    IF st.heap[self] = "EmptyShape" THEN Ret(st, self)
    ELSE EW_copy(st, other)

\* EmptyShape.__sub__ and WholeShape.__sub__
EW_sub(st, self, other) ==
    IF st.heap[self] = "EmptyShape" THEN Ret(st, self)
    ELSE IF st.heap[other] = "EmptyShape" THEN Ret(st, self)
    ELSE EmptyShape_new(st)

\* EmptyShape.__invert__ and WholeShape.__invert__
EW_invert(st, self) ==
    IF st.heap[self] = "EmptyShape" THEN WholeShape_new(st)
    ELSE EmptyShape_new(st)

\* BaseShape.__add__
EW_add(st, self, other) == EW_or(st, self, other)

\* BaseShape.__mul__
EW_mul(st, self, other) == EW_and(st, self, other)

\* BaseShape.__xor__: (self - other) | (other - self)
EW_xor(st, self, other) ==
    LET first == EW_sub(st, self, other)
        second == EW_sub(first.st, other, self)
    IN  EW_or(second.st, first.val, second.val)

\* A statement that leaves the store of ret
Statement(name, ret) ==
    /\ esteps < MaxSteps
    /\ heap' = ret.st.heap
    /\ instE' = ret.st.instE
    /\ instW' = ret.st.instW
    /\ eop' = name
    /\ esteps' = esteps + 1
    /\ UNCHANGED <<shapevars, objvars>>

\* r = <the call that returned ret>
AssignR(name, ret) ==
    /\ x # 0
    /\ y # 0
    /\ Statement(name, ret)
    /\ r' = ret.val
    /\ UNCHANGED <<x, y>>

\* x = cls()
AssignX(ret) ==
    /\ Statement("construct", ret)
    /\ x' = ret.val
    /\ UNCHANGED <<y, r>>

\* y = cls()
AssignY(ret) ==
    /\ Statement("construct", ret)
    /\ y' = ret.val
    /\ UNCHANGED <<x, r>>

\* x = r
EWKeep ==
    /\ r # 0
    /\ esteps < MaxSteps
    /\ x' = r
    /\ eop' = "keep"
    /\ esteps' = esteps + 1
    /\ UNCHANGED <<heap, instE, instW, y, r>>
    /\ UNCHANGED <<shapevars, objvars>>

\* The regions of the other statements stay as they are
ShapesIdle ==
    /\ a = EmptyShape
    /\ b = EmptyShape
    /\ inA = EmptyShape
    /\ inB = EmptyShape
    /\ op = "init"
    /\ res = EmptyShape
    /\ nops = 0

InitEW == NoInstance /\ ShapesIdle /\ NoObject

\* x = cls(), y = cls(), r = x | y, r = x + y, r = x & y, r = x * y,
\* r = x - y, r = x ^ y, r = ~x, r = x.copy(), x = r
NextEW ==
    \/ \E cls \in {"EmptyShape", "WholeShape"} : AssignX(Construct(Store, cls))
    \/ \E cls \in {"EmptyShape", "WholeShape"} : AssignY(Construct(Store, cls))
    \/ AssignR("or", EW_or(Store, x, y))
    \/ AssignR("add", EW_add(Store, x, y))
    \/ AssignR("and", EW_and(Store, x, y))
    \/ AssignR("mul", EW_mul(Store, x, y))
    \/ AssignR("sub", EW_sub(Store, x, y))
    \/ AssignR("xor", EW_xor(Store, x, y))
    \/ AssignR("invert", EW_invert(Store, x))
    \/ AssignR("copy", EW_copy(Store, x))
    \/ EWKeep

SpecEW == InitEW /\ [][NextEW]_vars

\* ------------------------------------------------------------------------
\* jordancurve.py, shape.py : one JordanCurve object, its caches and the
\* SimpleShape that owns it.  The curves of this part have their segments
\* parallel to the axes, where the length of a segment is |dx| + |dy|.
\* ------------------------------------------------------------------------

\* Number of calls in one run
MaxCalls == 4

FracAdd(f, g) == Fraction(f[1] * g[2] + g[1] * f[2], f[2] * g[2])

\* Point2D.move: the point plus the vector
Point2D_move(p, v) ==
    Point2D(p[1] * v[3] + v[1] * p[3], p[2] * v[3] + v[2] * p[3], p[3] * v[3])

\* Point2D.scale by whole factors
Point2D_scale(p, xscale, yscale) == Point2D(p[1] * xscale, p[2] * yscale, p[3])

\* Point2D.rotate by a quarter turn (angle 90, degrees=True)
Point2D_rotate(p) == Point2D(-p[2], p[1], p[3])

\* IntegratePlanar.lenght of a segment parallel to an axis
PlanarCurve_lenght(seg) ==
    Fraction(Abs(seg[2][1] * seg[1][3] - seg[1][1] * seg[2][3])
             + Abs(seg[2][2] * seg[1][3] - seg[1][2] * seg[2][3]),
             seg[1][3] * seg[2][3])

\* IntegrateJordan.lenght
RECURSIVE IntegrateJordan_lenght(_, _)
IntegrateJordan_lenght(jordan, i) ==
    IF i > Len(jordan) THEN <<0, 1>>
    ELSE FracAdd(PlanarCurve_lenght(jordan[i]),
                 IntegrateJordan_lenght(jordan, i + 1))

\* JordanCurve.lenght, computed: lenght if area > 0 else -lenght
JordanCurve_lenght(jordan) ==
    LET lenght == IntegrateJordan_lenght(jordan, 1)
    IN  IF IntegrateJordan_area2(jordan)[1] > 0 THEN lenght
        ELSE <<-lenght[1], lenght[2]>>

\* JordanCurve.vertices, computed: the control points in order, a point
\* equal to an earlier one left out; from the k-th control point on
RECURSIVE VerticesLoop(_, _, _)
VerticesLoop(jordan, k, found) ==
    IF k > 2 * Len(jordan) THEN found
    ELSE LET point == jordan[(k + 1) \div 2][2 - (k % 2)]
         IN  IF \E i \in 1..Len(found) : found[i] = point
             THEN VerticesLoop(jordan, k + 1, found)
             ELSE VerticesLoop(jordan, k + 1, Append(found, point))

JordanCurve_vertices(jordan) == VerticesLoop(jordan, 1, <<>>)

\* JordanCurve.box and FiniteShape.box of a SimpleShape, computed: the
\* fractions xmin, ymin, xmax, ymax
JordanCurve_box(jordan) ==
    LET points == {jordan[i][1] : i \in 1..Len(jordan)}
                  \cup {jordan[i][2] : i \in 1..Len(jordan)}
        lowx == CHOOSE p \in points : \A q \in points : XLeq(p, q)
        lowy == CHOOSE p \in points : \A q \in points : YLeq(p, q)
        highx == CHOOSE p \in points : \A q \in points : XLeq(q, p)
        highy == CHOOSE p \in points : \A q \in points : YLeq(q, p)
    IN  <<Fraction(lowx[1], lowx[3]), Fraction(lowy[2], lowy[3]),
          Fraction(highx[1], highx[3]), Fraction(highy[2], highy[3])>>

\* The ends of the segments chain cyclically: each segment ends where the
\* next one starts, the last one where the first one starts
CyclicChain(segments) ==
    \A i \in 1..Len(segments) :
        segments[i][2] = segments[(i % Len(segments)) + 1][1]

\* A call on the object
Called(name) ==
    /\ ncalls < MaxCalls
    /\ call' = name
    /\ ncalls' = ncalls + 1
    /\ UNCHANGED <<shapevars, ewvars>>

\* JordanCurve.from_segments(beziers): the setter of segments
FromSegments ==
    /\ phase = "list"
    /\ Called("from_segments")
    /\ IF segments_setter_ok(obj_segments)
       THEN phase' = "curve" /\ value' = None
       ELSE phase' = "error" /\ value' = "AssertionError"
    /\ UNCHANGED <<obj_segments, obj_lenght, obj_vertices, obj_area, obj_box>>

\* SimpleShape(curve): the setter of jordancurve keeps a copy of the curve
\* and caches the area
NewSimpleShape ==
    /\ phase = "curve"
    /\ Called("SimpleShape")
    /\ IF lenght_sign(obj_segments) < 0
       THEN /\ phase' = "error"
            /\ value' = "ValueError"
            /\ UNCHANGED <<obj_lenght, obj_vertices, obj_area>>
       ELSE /\ phase' = "shape"
            /\ value' = None
            /\ obj_lenght' = None
            /\ obj_vertices' = None
            /\ obj_area' = IntegrateJordan_area2(obj_segments)
    /\ UNCHANGED <<obj_segments, obj_box>>

\* vertex.move(point), vertex.scale(xscale, yscale) and vertex.rotate(angle)
\* for a quarter turn
Transformed(name, args, vertex) ==
    CASE name = "move" -> Point2D_move(vertex, args)
      [] name = "scale" -> Point2D_scale(vertex, args[1], args[2])
      [] name = "rotate" -> Point2D_rotate(vertex)

\* JordanCurve.move, scale and rotate (and BaseShape.move, scale and rotate,
\* which call them): every vertex is transformed in place
Transform(name, args) ==
    /\ phase \in {"curve", "shape"}
    /\ Called(name)
    /\ obj_segments' = [i \in 1..Len(obj_segments) |->
                           <<Transformed(name, args, obj_segments[i][1]),
                             Transformed(name, args, obj_segments[i][2])>>]
    /\ obj_vertices' =
          LET vertices == IF obj_vertices = None
                          THEN JordanCurve_vertices(obj_segments)
                          ELSE obj_vertices
          IN  [i \in 1..Len(vertices) |->
                  Transformed(name, args, vertices[i])]
    /\ value' = None
    /\ UNCHANGED <<phase, obj_lenght, obj_area, obj_box>>

\* JordanCurve.invert, clean and split: the setter of segments empties the
\* caches of the curve
Reassign(name, segments) ==
    /\ phase \in {"curve", "shape"}
    /\ Called(name)
    /\ obj_segments' = segments
    /\ obj_lenght' = None
    /\ obj_vertices' = None
    /\ value' = None
    /\ UNCHANGED <<phase, obj_area, obj_box>>

\* The properties lenght and vertices of the curve
ReadCurve ==
    /\ phase \in {"curve", "shape"}
    /\ \/ /\ Called("lenght")
          /\ obj_lenght' = IF obj_lenght = None
                           THEN JordanCurve_lenght(obj_segments)
                           ELSE obj_lenght
          /\ value' = obj_lenght'
          /\ UNCHANGED obj_vertices
       \/ /\ Called("vertices")
          /\ obj_vertices' = IF obj_vertices = None
                             THEN JordanCurve_vertices(obj_segments)
                             ELSE obj_vertices
          /\ value' = obj_vertices'
          /\ UNCHANGED obj_lenght
    /\ UNCHANGED <<phase, obj_segments, obj_area, obj_box>>

\* FiniteShape.box() and SimpleShape.__float__ of the shape
ReadShape ==
    /\ phase = "shape"
    /\ \/ /\ Called("box")
          /\ obj_box' = IF obj_box = None THEN JordanCurve_box(obj_segments)
                        ELSE obj_box
          /\ value' = obj_box'
       \/ /\ Called("float")
          /\ value' = obj_area
          /\ UNCHANGED obj_box
    /\ UNCHANGED <<phase, obj_segments, obj_lenght, obj_vertices, obj_area>>

\* JordanCurve.__invert__: self.copy().invert(), the inverted curve is
\* returned and the receiver is left as it is
InvertedCopy ==
    /\ phase \in {"curve", "shape"}
    /\ Called("__invert__")
    /\ value' = JordanCurve_invert(obj_segments)
    /\ UNCHANGED <<phase, obj_segments, obj_lenght, obj_vertices, obj_area,
                   obj_box>>

\* The lists of segments given to from_segments: squares, a square run
\* clockwise, three sides of a square, and two segments that do not meet
SegmentLists ==
    {Small, Left, Big, JordanCurve_invert(Small),
     <<(<<Pt(0, 0), Pt(2, 0)>>), (<<Pt(2, 0), Pt(2, 2)>>),
       (<<Pt(2, 2), Pt(0, 2)>>)>>,
     <<(<<Pt(0, 0), Pt(2, 0)>>), (<<Pt(3, 0), Pt(3, 2)>>),
       (<<Pt(3, 2), Pt(0, 0)>>)>>}

InitObj ==
    /\ NoInstance
    /\ ShapesIdle
    /\ phase = "list"
    /\ obj_segments \in SegmentLists
    /\ obj_lenght = None
    /\ obj_vertices = None
    /\ obj_area = None
    /\ obj_box = None
    /\ call = "init"
    /\ value = None
    /\ ncalls = 0

NextObj ==
    \/ FromSegments
    \/ NewSimpleShape
    \/ Transform("move", Pt(1, 0))
    \/ \E factors \in {<<2, 2>>, <<-1, 1>>} : Transform("scale", factors)
    \/ Transform("rotate", <<90>>)
    \/ Reassign("invert", JordanCurve_invert(obj_segments))
    \/ Reassign("clean", JordanCurve_clean(obj_segments))
    \/ \E index \in 0..(Len(obj_segments) - 1) :
          Reassign("split",
                   JordanCurve_split(obj_segments, <<(<<index, <<1, 2>>>>)>>))
    \/ InvertedCopy
    \/ ReadCurve
    \/ ReadShape

SpecObj == InitObj /\ [][NextObj]_vars

\* ------------------------------------------------------------------------
\* shape.py : the constructors and the containment queries, each called once
\* on operands of the catalogue.  res is what the constructor returns, or
\* the Answer of a query with the point it was asked about.
\* ------------------------------------------------------------------------

\* One call that leaves its operands as they are
Query(name, result) ==
    /\ op = "init"
    /\ op' = name
    /\ inA' = a
    /\ inB' = b
    /\ res' = result
    /\ nops' = nops + 1
    /\ UNCHANGED <<a, b, ewvars, objvars>>

Answer(point, val, wind) ==
    [kind |-> "Answer", point |-> point, val |-> val, wind |-> wind]

\* The list of holes given to ConnectedShape
Holes(name, hole) ==
    CASE name = "connected0" -> <<>>
      [] name = "connected1" -> <<hole>>
      [] name = "connected2" -> <<EmptyShape, hole, EmptyShape>>

\* ConnectedShape(a, holes), for the classes that its assertions admit
NewConnectedShape ==
    /\ a.kind \in {"Whole", "Simple"}
    /\ b.kind \in {"Empty", "Simple"}
    /\ \E name \in {"connected0", "connected1", "connected2"} :
          Query(name, ConnectedShape(a, Holes(name, b)))

\* The list of subshapes given to DisjointShape
Subshapes(name, first, second) ==
    CASE name = "disjoint0" -> <<>>
      [] name = "disjoint1" -> <<first>>
      [] name = "disjoint2" -> <<first, second>>

\* DisjointShape(subshapes), for the classes that its assertion admits
NewDisjointShape ==
    /\ a.kind \in {"Empty", "Simple", "Connected"}
    /\ b.kind \in {"Empty", "Simple", "Connected"}
    /\ \E name \in {"disjoint0", "disjoint1", "disjoint2"} :
          Query(name, DisjointShape(Subshapes(name, a, b)))

\* The list of curves given to ShapeFromJordans: none, the curves of the
\* first region, those of both, those of both inverted, those of the first
\* with those of the second inverted
Boundaries(name, first, second) ==
    CASE name = "jordans0" -> <<>>
      [] name = "jordans1" -> jordans(first)
      [] name = "jordans2" -> jordans(first) \o jordans(second)
      [] name = "jordans3" -> Inverted(jordans(first) \o jordans(second))
      [] name = "jordans4" -> jordans(first) \o Inverted(jordans(second))

\* ShapeFromJordans(jordans)
FromJordans ==
    \E name \in {"jordans0", "jordans1", "jordans2", "jordans3", "jordans4"} :
        Query(name, ShapeFromJordans(Boundaries(name, a, b)))

\* point in a, for a SimpleShape a and the points of a grid
ContainsPoint ==
    /\ a.kind = "Simple"
    /\ \E px \in -3..3, py \in -3..3 :
          Query("contains_point",
                Answer(Pt(px, py), SimpleShape_contains_point(a, Pt(px, py)),
                       winding_number(a.jordancurve, Pt(px, py))))

\* ConnectedShape.contains_point
ConnectedShape_contains_point(self, point) ==
    /\ \/ self.positive.kind = "Whole"
       \/ SimpleShape_contains_point(self.positive, point)
    /\ \A k \in 1..Len(self.holes) :
          ~(/\ SimpleShape_contains_point(self.holes[k], point)
            /\ ~JordanCurve_contains(self.holes[k].jordancurve, point))

\* ConnectedShape.contains_jordan_curve
ConnectedShape_contains_jordan_curve(self, jordan) ==
    \A i \in 1..(Len(jordan) + 1) :
        ConnectedShape_contains_point(self, JordanCurve_points1(jordan)[i])

\* ConnectedShape.contains_shape, interior being the point that
\* shape.interior_point() returns
ConnectedShape_contains_shape(self, shape, interior) ==
    IF shape.kind = "Empty" THEN TRUE
    ELSE IF shape.kind = "Whole" THEN FALSE
    ELSE IF float2(shape)[1] * float2(self)[1] < 0 THEN FALSE
    ELSE IF ~ConnectedShape_contains_point(self, interior) THEN FALSE
    ELSE \A k \in 1..Len(jordans(shape)) :
            ConnectedShape_contains_jordan_curve(self, jordans(shape)[k])

FracMul(f, g) == Fraction(f[1] * g[1], f[2] * g[2])

\* The point of the coordinates fx and fy
PointAt(fx, fy) == Point2D(fx[1] * fy[2], fy[1] * fx[2], fx[2] * fy[2])

\* SimpleShape.interior_point: the points that the loop can return for the
\* weights that are all 1, or 9 for one vertex and 1 for the others
SimpleShape_interior_point(self) ==
    LET vertices == JordanCurve_vertices(self.jordancurve)
        n == Len(vertices)
        poids(heavy) == [i \in 1..n |-> IF i = heavy THEN 9 ELSE 1]
        sumpoids(heavy) == IF heavy = 0 THEN n ELSE n + 8
        RECURSIVE Sum(_, _, _)
        Sum(heavy, c, i) ==
            IF i > n THEN <<0, 1>>
            ELSE FracAdd(<<poids(heavy)[i] * vertices[i][c],
                           sumpoids(heavy) * vertices[i][3]>>,
                         Sum(heavy, c, i + 1))
        point(heavy) == PointAt(Sum(heavy, 1, 1), Sum(heavy, 2, 1))
    IN  {q \in {point(heavy) : heavy \in 0..n} :
            /\ ~JordanCurve_contains(self.jordancurve, q)
            /\ SimpleShape_contains_point(self, q)}

\* ConnectedShape.interior_point: the points that the loop can return among
\* those at 0, 1/4, 1/2 and 3/4 of the ranges that uniform() draws from
ConnectedShape_interior_point(self) ==
    LET all == jordans(self)
        box == [k \in 1..Len(all) |-> JordanCurve_box(all[k])]
        least(c) == CHOOSE f \in {box[k][c] : k \in 1..Len(all)} :
                       \A k \in 1..Len(all) : ~FracLess(box[k][c], f)
        most(c) == CHOOSE f \in {box[k][c] : k \in 1..Len(all)} :
                      \A k \in 1..Len(all) : ~FracLess(f, box[k][c])
        \* xmin -= (xmax - xmin) / 10 and then xmax += (xmax - xmin) / 10
        low(lo, hi) == FracSub(lo, FracMul(FracSub(hi, lo), <<1, 10>>))
        high(lo, hi) == FracAdd(hi, FracMul(FracSub(hi, low(lo, hi)),
                                            <<1, 10>>))
        drawn(lo, hi, k) ==
            FracAdd(low(lo, hi),
                    FracMul(FracSub(high(lo, hi), low(lo, hi)), <<k, 4>>))
        point(i, j) == PointAt(drawn(least(1), most(3), i),
                               drawn(least(2), most(4), j))
    IN  {q \in {point(i, j) : i \in 0..3, j \in 0..3} :
            /\ \/ self.positive.kind = "Whole"
               \/ SimpleShape_contains_point(self.positive, q)
            /\ ~point_at_jordan(q, all)
            /\ ConnectedShape_contains_point(self, q)}

\* shape.interior_point()
interior_point(shape) ==
    IF shape.kind = "Simple" THEN SimpleShape_interior_point(shape)
    ELSE ConnectedShape_interior_point(shape)

\* The answer of other in self with the operands and the interior point
Contained(self, other, interior, val) ==
    [kind |-> "Answer", self |-> self, other |-> other, point |-> interior,
     val |-> val]

\* other in self for a SimpleShape self
InSimpleShape(self, other) ==
    Query("contains_shape",
          Contained(self, other, None, SimpleShape_contains_shape(self, other)))

\* other in self for a ConnectedShape self
InConnectedShape(self, other) ==
    \E interior \in interior_point(other) :
        Query("contains_shape",
              Contained(self, other, interior,
                        ConnectedShape_contains_shape(self, other, interior)))

\* b in a, ~b in a, b in ~a and ~b in ~a for two SimpleShapes
ContainsShape ==
    /\ a.kind = "Simple"
    /\ b.kind = "Simple"
    /\ \/ InSimpleShape(a, b)
       \/ InSimpleShape(a, invert(b))
       \/ InConnectedShape(invert(a), b)
       \/ InConnectedShape(invert(a), invert(b))

NextBuild ==
    \/ NewConnectedShape
    \/ NewDisjointShape
    \/ FromJordans
    \/ ContainsPoint
    \/ ContainsShape

SpecBuild == Init /\ [][NextBuild]_vars


\* ------------------------------------------------------------------------
\* jordancurve.py and shape.py : the methods of a curve and the functions of
\* FollowPath, each called once on curves made of the operands.  res holds
\* the arguments of the call next to what it returned.
\* ------------------------------------------------------------------------

\* The same closed curve with its list of segments started shift further
Rotated(jordan, shift) ==
    [i \in 1..Len(jordan) |-> jordan[((i - 1 + shift) % Len(jordan)) + 1]]

\* The ways the boundary is handed over: from any of its segments on, as it
\* is or with a vertex put at the middle of the first segment, or inverted
Variants(jordan) ==
    LET turned == {Rotated(jordan, s) : s \in 0..(Len(jordan) - 1)}
    IN  turned
        \cup {JordanCurve_split(t, <<(<<0, (<<1, 2>>)>>)>>) : t \in turned}
        \cup {JordanCurve_invert(jordan)}

\* self == other for two curves
CompareCurves ==
    /\ a.kind = "Simple"
    /\ b.kind = "Simple"
    /\ \E self \in Variants(a.jordancurve), other \in Variants(b.jordancurve) :
          Query("eq", [kind |-> "Eq", self |-> self, other |-> other,
                       val |-> JordanCurve_eq(self, other)])

\* What split_at_intersections did to jordana: the sorted positions handed to
\* jordana.split and both curves afterwards
SplitOutcome(jordana, jordanb, inters) ==
    [kind |-> "Split", self |-> jordana, other |-> jordanb,
     positions |-> IF \E t \in inters : t[3] = None THEN <<>>
                   ELSE SortedPositions({<<t[1], t[3]>> : t \in inters}),
     out |-> SplitAt(jordana, jordanb, inters)]

\* FollowPath.split_at_intersections(jordana, jordanb) and the call of
\* jordana.split(indexs, nodes) it makes
SplitCurves ==
    /\ a.kind = "Simple"
    /\ b.kind = "Simple"
    /\ Query("split",
             SplitOutcome(a.jordancurve, b.jordancurve,
                          JordanCurve_intersection(a.jordancurve,
                                                   b.jordancurve,
                                                   TRUE, FALSE)))

\* t < u for two tuples (ai, bj, ui, vj) as sorted() compares them; two
\* tuples of one pair of segments are never a None against a number
TupleLess(t, u) ==
    \/ t[1] < u[1]
    \/ t[1] = u[1] /\ t[2] < u[2]
    \/ t[1] = u[1] /\ t[2] = u[2] /\ FracLess(t[3], u[3])
    \/ t[1] = u[1] /\ t[2] = u[2] /\ t[3] = u[3] /\ FracLess(t[4], u[4])

\* tuple(sorted(intersections))
RECURSIVE SortedTuples(_)
SortedTuples(S) ==
    IF S = {} THEN <<>>
    ELSE LET m == CHOOSE t \in S : \A u \in S \ {t} : TupleLess(t, u)
         IN  <<m>> \o SortedTuples(S \ {m})

\* self.intersection(other, equal_beziers, end_points) and self & other
Intersect ==
    /\ a.kind = "Simple"
    /\ b.kind = "Simple"
    /\ \/ \E equal_beziers \in BOOLEAN, end_points \in BOOLEAN :
            Query("intersection",
                  [kind |-> "Inters", self |-> a.jordancurve,
                   other |-> b.jordancurve,
                   equal_beziers |-> equal_beziers,
                   end_points |-> end_points,
                   val |-> SortedTuples(JordanCurve_intersection(
                               a.jordancurve, b.jordancurve,
                               equal_beziers, end_points))])
       \/ Query("and",
                [kind |-> "Inters", self |-> a.jordancurve,
                 other |-> b.jordancurve,
                 equal_beziers |-> FALSE, end_points |-> FALSE,
                 val |-> SortedTuples(JordanCurve_and(a.jordancurve,
                                                      b.jordancurve))])

NextCurve ==
    \/ CompareCurves
    \/ SplitCurves
    \/ Intersect

SpecCurve == Init /\ [][NextCurve]_vars


\* ------------------------------------------------------------------------
\* shape.py : FollowPath.pursue_path taken one iteration of its while loop at
\* a time, on the boundaries of the operands after split_jordans.  res holds
\* the local variables of the call.
\* ------------------------------------------------------------------------

\* A membership test of the path that never finds the pair
NeverVisited(matrix, pair) == FALSE

\* (index_jordan, index_segment) in matrix
Visited(matrix, pair) == \E m \in 1..Len(matrix) : matrix[m] = pair

\* Boundaries given to pursue_path besides those of the operands: none, or
\* a triangle that was not split and that passes through a crossing point of
\* the two diamonds, three boundaries meeting there
ExtraBoundaries == {<<>>, <<Triangle>>}

\* The call pursue_path(index_jordan, index_segment, all_jordans) is entered,
\* sp being what split_jordans left of the boundaries of the operands
Entered(sp, extra) ==
    LET all_jordans == sp.a \o sp.b \o extra
    IN  /\ sp.err = ""
        /\ \E index_jordan \in 0..(Len(all_jordans) - 1) :
             \E index_segment \in 0..(Len(all_jordans[index_jordan + 1]) - 1) :
                res' = [kind |-> "Pursue", jordans |-> all_jordans,
                        first |-> <<index_jordan, index_segment>>,
                        index_jordan |-> index_jordan,
                        index_segment |-> index_segment,
                        matrix |-> <<>>]

PursueStart ==
    /\ op = "init"
    /\ \E extra \in ExtraBoundaries :
          Entered(split_jordans(jordans(a), jordans(b)), extra)
    /\ op' = "pursue"
    /\ UNCHANGED <<a, b, inA, inB, nops, ewvars, objvars>>

\* One iteration of the while loop: the break, or the append and the choice
\* of the segment to go on with
PursueIterate ==
    /\ op = "pursue"
    /\ LET all_jordans == res.jordans
           index_jordan == res.index_jordan
           iseg == res.index_segment % Len(all_jordans[index_jordan + 1])
           last_point == all_jordans[index_jordan + 1][iseg + 1][2]
           others == {i \in 0..(Len(all_jordans) - 1) :
                         /\ i # index_jordan
                         /\ JordanCurve_contains(all_jordans[i + 1],
                                                 last_point)}
           i == Min(others)
           starts == {j \in 0..(Len(all_jordans[i + 1]) - 1) :
                         all_jordans[i + 1][j + 1][1] = last_point}
           grown == Append(res.matrix, <<index_jordan, iseg>>)
       IN  IF Visited(res.matrix, <<index_jordan, iseg>>)
           THEN /\ op' = "pursued"
                /\ res' = [res EXCEPT !.index_segment = iseg]
           ELSE /\ op' = op
                /\ res' = IF others = {}
                          THEN [res EXCEPT !.matrix = grown,
                                           !.index_segment = iseg + 1]
                          ELSE [res EXCEPT !.matrix = grown,
                                           !.index_jordan = i,
                                           !.index_segment =
                                               IF starts = {} THEN iseg
                                               ELSE Min(starts)]
    /\ UNCHANGED <<a, b, inA, inB, nops, ewvars, objvars>>

SpecPursue == Init /\ [][PursueStart \/ PursueIterate]_vars

\* The loop runs on its own: once entered, the next iteration is taken
FairPursue == SpecPursue /\ WF_vars(PursueIterate)


\* ------------------------------------------------------------------------
\* shape.py : the functions of FollowPath that look at no curve, each called
\* once on a small argument.  res holds the argument next to the result.
\* ------------------------------------------------------------------------

MaxLen == 4
MaxPath == 3

\* Every tuple of at most n elements of S
TuplesUpTo(S, n) == UNION {[1..k -> S] : k \in 0..n}

\* No operand takes part in these calls
InitPure == Init /\ a = EmptyShape /\ b = EmptyShape

\* FollowPath.switch_boolean(boolvector)
SwitchBoolean ==
    \E boolvector \in TuplesUpTo(BOOLEAN, MaxLen) :
        Query("switch", [kind |-> "Switch", boolvector |-> boolvector,
                         val |-> switch_boolean(boolvector)])

\* The paths the calls are made with: tuples with and without repeated
\* elements
Paths == TuplesUpTo({"A", "B", "C"}, MaxPath)

\* FollowPath.is_rotation(oneobj, other)
IsRotation ==
    \E oneobj \in Paths, other \in Paths :
        Query("is_rotation", [kind |-> "IsRotation", oneobj |-> oneobj,
                              other |-> other,
                              val |-> is_rotation(oneobj, other)])

\* FollowPath.filter_rotations(matrix) for a matrix of one, two or three
\* lines
FilterRotations ==
    \E line \in Paths, other \in Paths :
        \E matrix \in {<<line>>, <<line, other>>,
                       <<line, other, Rotated(line \o <<"A">>, 1)>>} :
            Query("filter", [kind |-> "Filter", matrix |-> matrix,
                             val |-> filter_rotations(matrix)])

SpecPure == InitPure /\ [][SwitchBoolean \/ IsRotation \/ FilterRotations]_vars

\* ------------------------------------------------------------------------
\* Plane geometry the claims are stated with (not taken from the program)
\* ------------------------------------------------------------------------

\* The two segments have a point in common
SegmentsMeet(e, f) ==
    LET d1 == Cross(f[1], f[2], e[1])
        d2 == Cross(f[1], f[2], e[2])
        d3 == Cross(e[1], e[2], f[1])
        d4 == Cross(e[1], e[2], f[2])
        opposite(u, v) == (u < 0 /\ v > 0) \/ (u > 0 /\ v < 0)
    IN  \/ opposite(d1, d2) /\ opposite(d3, d4)
        \/ PlanarCurve_contains(f, e[1]) \/ PlanarCurve_contains(f, e[2])
        \/ PlanarCurve_contains(e, f[1]) \/ PlanarCurve_contains(e, f[2])

\* The point belongs to the closed region bounded by the curve
InRegion(point, jordan) ==
    \/ JordanCurve_contains(jordan, point)
    \/ SumWinding(jordan, point, 1) # 0

\* The regions bounded by the two curves have no point in common
NoCommonPoint(ja, jb) ==
    /\ \A i \in 1..Len(ja), j \in 1..Len(jb) : ~SegmentsMeet(ja[i], jb[j])
    /\ ~InRegion(ja[1][1], jb)
    /\ ~InRegion(jb[1][1], ja)

\* The parameter of a point of the segment e
ParamOn(e, p) ==
    LET L == e[1][3] * e[2][3] * p[3]
        sx(q) == q[1] * (L \div q[3])
        sy(q) == q[2] * (L \div q[3])
    IN  IF sx(e[2]) # sx(e[1])
        THEN Fraction(sx(p) - sx(e[1]), sx(e[2]) - sx(e[1]))
        ELSE Fraction(sy(p) - sy(e[1]), sy(e[2]) - sy(e[1]))

\* Where the segment e meets the curve: its ends, the vertices of the curve
\* on it and its crossings with the segments of the curve
CutParams(e, jordan) ==
    {<<0, 1>>, <<1, 1>>}
    \cup {ParamOn(e, jordan[i][1]) :
             i \in {k \in 1..Len(jordan) : PlanarCurve_contains(e, jordan[k][1])}}
    \cup UNION {{t[1] : t \in {u \in intersection_bezier(e, jordan[i]) :
                                  u[1] # None}} : i \in 1..Len(jordan)}

\* The segment e lies in the closed region bounded by the curve: between two
\* consecutive cuts it is inside or outside as a whole
SegmentInRegion(e, jordan) ==
    LET cuts == CutParams(e, jordan)
        nextCut(f) == CHOOSE g \in cuts :
                         /\ FracLess(f, g)
                         /\ \A h \in cuts : FracLess(f, h) =>
                               (h = g \/ FracLess(g, h))
        mid(f, g) == Fraction(f[1] * g[2] + g[1] * f[2], 2 * f[2] * g[2])
    IN  \A f \in cuts \ {<<1, 1>>} :
            InRegion(PlanarCurve_eval(e, mid(f, nextCut(f))), jordan)

\* The region bounded by jb is contained in the region bounded by ja
ContainedIn(jb, ja) == \A i \in 1..Len(jb) : SegmentInRegion(jb[i], ja)

BothSimple == inA.kind = "Simple" /\ inB.kind = "Simple"

\* ------------------------------------------------------------------------
\* Claims
\* ------------------------------------------------------------------------

UnionAB ==
    JordanPolygon(<<(<<0, 1>>), (<<-1, 2>>), (<<-3, 0>>), (<<-1, -2>>),
                    (<<0, -1>>), (<<1, -2>>), (<<3, 0>>), (<<1, 2>>)>>)
IntersectionAB ==
    JordanPolygon(<<(<<0, -1>>), (<<1, 0>>), (<<0, 1>>), (<<-1, 0>>)>>)
DifferenceAB ==
    JordanPolygon(<<(<<0, 1>>), (<<-1, 2>>), (<<-3, 0>>), (<<-1, -2>>),
                    (<<0, -1>>), (<<-1, 0>>)>>)
DifferenceBA ==
    JordanPolygon(<<(<<0, 1>>), (<<1, 0>>), (<<0, -1>>), (<<1, -2>>),
                    (<<3, 0>>), (<<1, 2>>)>>)

\* res is one SimpleShape that compares equal to the polygon
IsSimpleEqual(polygon) ==
    /\ res.kind = "Simple"
    /\ shape_eq(res, SimpleShape(polygon)) = "True"

\* C1: for the two overlapping diamonds A and B, each of A | B, A & B, A - B
\* and B - A is a single SimpleShape equal to the pre-computed polygon.
C1_Diamonds ==
    /\ (inA = SimpleShape(SquareA) /\ inB = SimpleShape(SquareB)) =>
          /\ op = "or" => IsSimpleEqual(UnionAB)
          /\ op = "and" => IsSimpleEqual(IntersectionAB)
          /\ op = "sub" => IsSimpleEqual(DifferenceAB)
    /\ (inA = SimpleShape(SquareB) /\ inB = SimpleShape(SquareA)) =>
          /\ op = "or" => IsSimpleEqual(UnionAB)
          /\ op = "and" => IsSimpleEqual(IntersectionAB)
          /\ op = "sub" => IsSimpleEqual(DifferenceBA)

C1_Witness ==
    /\ op = "sub"
    /\ inA = SimpleShape(SquareB)
    /\ inB = SimpleShape(SquareA)
    /\ res.kind = "Simple"
    /\ Len(res.jordancurve) = 6

\* C2: for SimpleShapes A (first operand) and B with B contained in A:
\* A & B == B, A | B == A, and as second operand B & A == B, B | A == A;
\* B in A is true and A in B is false (A and B being different regions).
C2_Nested ==
    /\ (BothSimple /\ ContainedIn(inB.jordancurve, inA.jordancurve)) =>
          /\ op = "and" => shape_eq(res, inB) = "True"
          /\ op = "or" => shape_eq(res, inA) = "True"
          /\ contains_shape(inA, inB)
          /\ ~ContainedIn(inA.jordancurve, inB.jordancurve)
                => ~contains_shape(inB, inA)
    /\ (BothSimple /\ ContainedIn(inA.jordancurve, inB.jordancurve)) =>
          /\ op = "and" => shape_eq(res, inA) = "True"
          /\ op = "or" => shape_eq(res, inB) = "True"

\* C3: for the nested squares A (side 4) and B (side 2) the difference A - B
\* is a ConnectedShape with outer boundary A and the one hole B.
C3_Annulus ==
    (op = "sub" /\ inA = SimpleShape(Big) /\ inB = SimpleShape(Small)) =>
        /\ res.kind = "Connected"
        /\ shape_eq(res, Connected(SimpleShape(Big), <<SimpleShape(Small)>>))
              = "True"

\* C4: for two SimpleShapes with no common point, A | B is a DisjointShape of
\* two Simple components, one equal to A and one equal to B.
C4_DisjointUnion ==
    (op = "or" /\ BothSimple
        /\ NoCommonPoint(inA.jordancurve, inB.jordancurve)) =>
        /\ res.kind = "Disjoint"
        /\ Len(res.subshapes) = 2
        /\ \E k \in 1..2 : shape_eq(res.subshapes[k], inA) = "True"
        /\ \E k \in 1..2 : shape_eq(res.subshapes[k], inB) = "True"

\* C5: for two SimpleShapes with no common point, A & B (and B & A) is the
\* EmptyShape.
C5_DisjointIntersection ==
    (op = "and" /\ BothSimple
        /\ NoCommonPoint(inA.jordancurve, inB.jordancurve)) =>
        res = EmptyShape

C5_Witness ==
    /\ op = "and"
    /\ inA = SimpleShape(Left)
    /\ inB = SimpleShape(Right)
    /\ NoCommonPoint(inA.jordancurve, inB.jordancurve)
    /\ res = EmptyShape

\* res was computed without raising and compares equal to the region
IsEqualTo(region) ==
    /\ ~IsError(res)
    /\ shape_eq(res, region) = "True"

\* The second operand is the complement of the first one
ComplementRight == ~IsError(invert(inA)) /\ inB = invert(inA)

\* The first operand is the complement of the second one
ComplementLeft == ~IsError(invert(inB)) /\ inA = invert(inB)

\* C6: for every region R of every variant, R | Empty, Empty | R, R & Whole
\* and Whole & R complete without raising and return a region equal to R.
C6_Identity ==
    /\ (op = "or" /\ inB = EmptyShape) => IsEqualTo(inA)
    /\ (op = "or" /\ inA = EmptyShape) => IsEqualTo(inB)
    /\ (op = "and" /\ inB = WholeShape) => IsEqualTo(inA)
    /\ (op = "and" /\ inA = WholeShape) => IsEqualTo(inB)

\* C7: for every region R, R | ~R and ~R | R are the WholeShape.
C7_UnionComplement ==
    (op = "or" /\ (ComplementRight \/ ComplementLeft)) => res = WholeShape

\* C8: for every region R, ~R is computed and R & ~R and ~R & R are the
\* EmptyShape.
C8_IntersectionComplement ==
    /\ op = "invert" => ~IsError(res)
    /\ (op = "and" /\ (ComplementRight \/ ComplementLeft)) => res = EmptyShape

\* C9: for every region R of every variant, ~~R is computed without raising
\* and compares equal to R.
C9_Involution ==
    (op = "invertB" /\ ComplementRight) => IsEqualTo(inA)

\* C10: for every region R, R | R and R & R compare equal to R.
C10_Idempotence ==
    (op \in {"or", "and"} /\ inA = inB) => IsEqualTo(inA)

IsWhole(i) == heap[i] = "WholeShape"

\* The set-algebra truth table of the last statement, Whole being true
TruthTable ==
    CASE eop \in {"or", "add"} -> IsWhole(x) \/ IsWhole(y)
      [] eop \in {"and", "mul"} -> IsWhole(x) /\ IsWhole(y)
      [] eop = "sub" -> IsWhole(x) /\ ~IsWhole(y)
      [] eop = "xor" -> IsWhole(x) # IsWhole(y)
      [] eop = "invert" -> ~IsWhole(x)
      [] eop = "copy" -> IsWhole(x)

\* C11: for operands x, y among EmptyShape() and WholeShape(), the operators
\* |, +, &, *, -, ^, ~ and copy() return the one instance of the class that
\* the set-algebra truth table gives, and there are never two objects of
\* EmptyShape or two of WholeShape.
C11_Singletons ==
    /\ Cardinality({i \in 1..Len(heap) : heap[i] = "EmptyShape"}) <= 1
    /\ Cardinality({i \in 1..Len(heap) : heap[i] = "WholeShape"}) <= 1
    /\ eop \in {"or", "add", "and", "mul", "sub", "xor", "invert", "copy"} =>
          /\ r \in 1..Len(heap)
          /\ IsWhole(r) = TruthTable
          /\ r = IF TruthTable THEN instW ELSE instE
          /\ (eop \in {"or", "add"} /\ ~IsWhole(x)) => r = y
          /\ (eop \in {"and", "mul"} /\ IsWhole(x)) => r = y
          /\ (eop = "sub" /\ ~IsWhole(y)) => r = x
          /\ eop = "copy" => r = x

C11_Witness ==
    /\ eop = "xor"
    /\ ~IsWhole(x)
    /\ IsWhole(y)
    /\ IsWhole(r)
    /\ r = y

\* A region of the three bounded variants: its outer boundaries are curves
IsFinite(shape) ==
    \/ shape.kind = "Simple"
    \/ shape.kind = "Connected" /\ shape.positive.kind = "Simple"
    \/ shape.kind = "Disjoint"
          /\ \A k \in 1..Len(shape.subshapes) :
                \/ shape.subshapes[k].kind = "Simple"
                \/ shape.subshapes[k].kind = "Connected"
                      /\ shape.subshapes[k].positive.kind = "Simple"

\* res was computed without raising and compares equal to the complement of
\* the region, which is computed without raising as well
IsEqualToComplement(region) ==
    /\ ~IsError(invert(region))
    /\ IsEqualTo(invert(region))

\* C12: for every finite region R, R | Whole and Whole | R are the
\* WholeShape, R & Empty, Empty & R, R - Whole and Empty - R are the
\* EmptyShape, R - Empty and R ^ Empty compare equal to R, and Whole - R and
\* R ^ Whole compare equal to ~R.
C12_ShortCircuit ==
    /\ (op = "or" /\ IsFinite(inA) /\ inB = WholeShape) => res = WholeShape
    /\ (op = "or" /\ inA = WholeShape /\ IsFinite(inB)) => res = WholeShape
    /\ (op = "and" /\ IsFinite(inA) /\ inB = EmptyShape) => res = EmptyShape
    /\ (op = "and" /\ inA = EmptyShape /\ IsFinite(inB)) => res = EmptyShape
    /\ (op = "sub" /\ IsFinite(inA) /\ inB = WholeShape) => res = EmptyShape
    /\ (op = "sub" /\ inA = EmptyShape /\ IsFinite(inB)) => res = EmptyShape
    /\ (op = "sub" /\ IsFinite(inA) /\ inB = EmptyShape) => IsEqualTo(inA)
    /\ (op = "sub" /\ inA = WholeShape /\ IsFinite(inB)) =>
          IsEqualToComplement(inB)
    /\ (op = "xor" /\ IsFinite(inA) /\ inB = EmptyShape) => IsEqualTo(inA)
    /\ (op = "xor" /\ IsFinite(inA) /\ inB = WholeShape) =>
          IsEqualToComplement(inA)

\* C13: a call of |, &, -, ^ or ~ that returns a region leaves every
\* boundary of both operands with the segment list it had before the call.
C13_OperandsUntouched ==
    [][(nops' # nops /\ ~IsError(res')) => (a' = a /\ b' = b)]_vars

\* C14: after any calls of move, scale, rotate, invert, clean and split, the
\* signed length and the vertex list read from the curve, and the box and
\* the area read from the shape that owns it, are the values computed from
\* the segments the closed curve has then.
C14_CacheCoherence ==
    CyclicChain(obj_segments) =>
        /\ call = "lenght" => value = JordanCurve_lenght(obj_segments)
        /\ call = "vertices" => value = JordanCurve_vertices(obj_segments)
        /\ call = "box" => value = JordanCurve_box(obj_segments)
        /\ call = "float" => value = IntegrateJordan_area2(obj_segments)

\* C15: every JordanCurve that was constructed satisfies the cyclic chain
\* invariant, the wrap-around from the last segment to the first included;
\* a list of segments that violates it is rejected with an error.
C15_CyclicChain ==
    /\ phase \in {"curve", "shape"} => CyclicChain(obj_segments)
    /\ (call = "from_segments" /\ ~CyclicChain(obj_segments)) =>
          phase = "error"

\* C16: SimpleShape(curve) raises ValueError for a curve of negative signed
\* length, and move, scale with any factors and rotate of a SimpleShape
\* with a closed positive boundary leave the boundary with positive signed
\* length.
C16_PositiveBoundary ==
    [][/\ (call' = "SimpleShape" /\ ncalls' # ncalls
              /\ lenght_sign(obj_segments) < 0) =>
             (phase' = "error" /\ value' = "ValueError")
       /\ (phase = "shape" /\ ncalls' # ncalls
              /\ call' \in {"move", "scale", "rotate"}
              /\ CyclicChain(obj_segments)
              /\ lenght_sign(obj_segments) > 0) =>
             lenght_sign(obj_segments') > 0]_vars

\* The hole lies in the outer region
HoleInside(hole, outer) ==
    \/ outer.kind = "Whole"
    \/ ContainedIn(hole.jordancurve, outer.jordancurve)

NotEmpty(shapes) == SelectSeq(shapes, LAMBDA h : h # EmptyShape)

\* What the claim expects of ConnectedShape(outer, holes)
ExpectedConnected(outer, holes) ==
    IF holes = <<>> THEN outer
    ELSE IF \E k \in 1..Len(holes) : ~HoleInside(holes[k], outer)
    THEN Error("ValueError")
    ELSE Connected(outer, holes)

\* What the claim expects of DisjointShape(subshapes) for at most one
\* component
ExpectedDisjoint(subshapes) ==
    /\ subshapes = <<>> => res = EmptyShape
    /\ Len(subshapes) = 1 => res = subshapes[1]

\* C17: ConnectedShape(outer, holes) returns the outer shape when no hole is
\* left after the EmptyShapes are dropped, raises ValueError when a hole is
\* not contained in the outer shape, and is otherwise the ConnectedShape of
\* the given holes; DisjointShape(subshapes) returns the EmptyShape when no
\* component is left and the component when one is left.
C17_Construction ==
    /\ op \in {"connected0", "connected1", "connected2"} =>
          res = ExpectedConnected(inA, NotEmpty(Holes(op, inB)))
    /\ op \in {"disjoint0", "disjoint1", "disjoint2"} =>
          ExpectedDisjoint(NotEmpty(Subshapes(op, inA, inB)))

\* What the claim expects of ShapeFromJordans(curves)
Classified(curves) ==
    LET n == Len(curves)
        positive(k) == IntegrateJordan_area2(curves[k])[1] > 0
    IN  IF n = 0 THEN EmptyShape
        ELSE IF n = 1 /\ positive(1) THEN Simple(curves[1])
        ELSE IF \A k \in 1..n : ~positive(k)
        THEN Connected(WholeShape,
                       [k \in 1..n |-> Simple(JordanCurve_invert(curves[k]))])
        ELSE IF \A k \in 1..n : positive(k)
        THEN Disjoint([k \in 1..n |-> Simple(curves[k])])
        ELSE Error("NotImplementedError")

\* C18: ShapeFromJordans returns the EmptyShape for no curve, the
\* SimpleShape of one positive curve, the ConnectedShape of WholeShape with
\* one hole per curve (inverted) when all curves are negative, the
\* DisjointShape of one SimpleShape per curve for two or more positive
\* curves, and raises NotImplementedError for mixed signs.
C18_Classification ==
    op \in {"jordans0", "jordans1", "jordans2", "jordans3", "jordans4"} =>
        res = Classified(Boundaries(op, inA, inB))

C18_Witness ==
    /\ op = "jordans4"
    /\ inA.kind = "Simple"
    /\ inB.kind = "Simple"
    /\ res = Error("NotImplementedError")

\* The point is on the segment
OnSegment(point, seg) ==
    /\ Cross(seg[1], seg[2], point) = 0
    /\ Inner(point, seg[1], seg[2]) <= 0

OnBoundary(point, jordan) ==
    \E i \in 1..Len(jordan) : OnSegment(point, jordan[i])

\* The point is not on the curve, and the ray that goes up from it crosses
\* the curve an odd number of times
StrictlyInside(point, jordan) ==
    LET before(p, q) == XLeq(p, q) /\ ~XLeq(q, p)
        above(seg) ==
            \/ /\ XLeq(seg[1], point) /\ before(point, seg[2])
               /\ Cross(seg[1], seg[2], point) < 0
            \/ /\ XLeq(seg[2], point) /\ before(point, seg[1])
               /\ Cross(seg[1], seg[2], point) > 0
    IN  /\ ~OnBoundary(point, jordan)
        /\ Cardinality({i \in 1..Len(jordan) : above(jordan[i])}) % 2 = 1

IsComplement(shape) ==
    /\ shape.kind = "Connected"
    /\ shape.positive.kind = "Whole"
    /\ Len(shape.holes) = 1

\* The curve that bounds a SimpleShape or its complement
Bound(shape) ==
    IF shape.kind = "Simple" THEN shape.jordancurve
    ELSE shape.holes[1].jordancurve

\* C20: for SimpleShapes and complements of SimpleShapes, X in Y is true
\* exactly when every point of X lies in Y: a SimpleShape is in another one
\* when its region is contained in the other region, it is in the
\* complement of another one when the two regions have no common point and
\* is not when it lies in the other one, a complement is in no SimpleShape,
\* and ~T is in ~S exactly when S is contained in T.
C20_ShapeContainment ==
    op = "contains_shape" =>
        LET X == res.other
            Y == res.self
        IN  /\ (X.kind = "Simple" /\ Y.kind = "Simple") =>
                  (res.val <=> ContainedIn(Bound(X), Bound(Y)))
            /\ (X.kind = "Simple" /\ IsComplement(Y)) =>
                  /\ NoCommonPoint(Bound(X), Bound(Y)) => res.val
                  /\ ContainedIn(Bound(X), Bound(Y)) => ~res.val
            /\ (IsComplement(X) /\ Y.kind = "Simple") => ~res.val
            /\ (IsComplement(X) /\ IsComplement(Y)) =>
                  (res.val <=> ContainedIn(Bound(Y), Bound(X)))

\* The two lists of segments are equal up to a cyclic rotation
IsRotationOf(c, d) ==
    /\ Len(c) = Len(d)
    /\ \E s \in 0..(Len(c) - 1) : Rotated(c, s) = d

\* C21: two curves compare equal exactly when, after each is cleaned on its
\* own, their lists of segments are equal up to a cyclic rotation, whatever
\* segment each list starts with and whatever removable vertices it holds,
\* and the comparison returns a Boolean without raising.
C21_Equality ==
    op = "eq" =>
        res.val = IF IsRotationOf(JordanCurve_clean(res.self),
                                  JordanCurve_clean(res.other))
                  THEN "True" ELSE "False"

\* The two segments cross at a point interior to both
ProperCross(e, f) ==
    LET d1 == Cross(f[1], f[2], e[1])
        d2 == Cross(f[1], f[2], e[2])
        d3 == Cross(e[1], e[2], f[1])
        d4 == Cross(e[1], e[2], f[2])
        opposite(u, v) == (u < 0 /\ v > 0) \/ (u > 0 /\ v < 0)
    IN  opposite(d1, d2) /\ opposite(d3, d4)

\* abs(node) < 1e-6 or abs(node - 1) < 1e-6
NearEnd(node) ==
    \/ Abs(node[1]) * 1000000 < node[2]
    \/ Abs(node[1] - node[2]) * 1000000 < node[2]

\* The positions of the call that are not at an end of their segment
InnerPositions(positions) ==
    {k \in 1..Len(positions) : ~NearEnd(positions[k][2])}

\* The curve has a vertex at every inner position of the original curve
VerticesInserted(original, positions, new) ==
    \A k \in InnerPositions(positions) :
        \E i \in 1..Len(new) :
            new[i][1] = PlanarCurve_eval(original[positions[k][1] + 1],
                                         positions[k][2])

\* C22: split, called with ascending (index, node) pairs, puts a vertex at
\* original_segments[index](node) for every node not within 1e-6 of 0 or 1,
\* adds as many segments as vertices, leaves the traced curve as it was, also
\* with several nodes on one original segment, and afterwards no segment
\* crosses the other boundary in its interior.
C22_Split ==
    (op = "split" /\ res.out.err = "") =>
        /\ VerticesInserted(res.self, res.positions, res.out.a)
        /\ Len(res.out.a) =
              Len(res.self) + Cardinality(InnerPositions(res.positions))
        /\ IsRotationOf(JordanCurve_clean(res.out.a),
                        JordanCurve_clean(res.self))
        /\ \A i \in 1..Len(res.out.a), j \in 1..Len(res.other) :
              ~ProperCross(res.out.a[i], res.other[j])

\* The segment the k-th entry of the path names
PathSegment(k) == res.jordans[res.matrix[k][1] + 1][res.matrix[k][2] + 1]

\* C23: the path returned by pursue_path starts with the pair
\* (index_jordan, index_segment), every entry's segment ends where the next
\* entry's segment starts, and the last segment ends where the first starts.
C23_ClosedPath ==
    op = "pursued" =>
        /\ res.matrix[1] = res.first
        /\ \A k \in 1..(Len(res.matrix) - 1) :
              PathSegment(k)[2] = PathSegment(k + 1)[1]
        /\ PathSegment(Len(res.matrix))[2] = PathSegment(1)[1]

\* The number of segments of all boundaries of the call together
RECURSIVE TotalSegments(_)
TotalSegments(all_jordans) ==
    IF all_jordans = <<>> THEN 0
    ELSE Len(Head(all_jordans)) + TotalSegments(Tail(all_jordans))

\* Three boundaries of the call pass through the end of the segment the
\* path was entered with, which the precondition of pursue_path excludes
TripleIntersection ==
    LET first == res.jordans[res.first[1] + 1][res.first[2] + 1]
    IN  Cardinality({i \in 1..Len(res.jordans) :
                        JordanCurve_contains(res.jordans[i], first[2])}) >= 3

\* C24: pursue_path terminates on every input with non-empty boundaries,
\* also with three boundaries through one point: every iteration stops or
\* appends a pair that is not in the path, so the path never holds a pair
\* twice and never more entries than there are segments in all boundaries.
C24_Termination ==
    /\ [](op \in {"pursue", "pursued"} =>
            /\ \A k, m \in 1..Len(res.matrix) :
                  res.matrix[k] = res.matrix[m] => k = m
            /\ Len(res.matrix) <= TotalSegments(res.jordans))
    /\ (op = "pursue") ~> (op = "pursued")

C24_Witness ==
    /\ op = "pursued"
    /\ TripleIntersection
    /\ Len(res.matrix) > 1

\* The number of maximal cyclic runs of true: all of a vector without a false
\* is one run, and otherwise every run ends at a true followed by a false
CyclicRuns(v) ==
    IF v # <<>> /\ \A i \in 1..Len(v) : v[i] THEN 1
    ELSE Cardinality({i \in 1..Len(v) : v[i] /\ ~v[(i % Len(v)) + 1]})

\* The tuple holds, in ascending order, exactly the indices where v goes from
\* false to true, the element before the first being the last
IsSwitches(v, val) ==
    /\ \A k \in 1..(Len(val) - 1) : val[k] < val[k + 1]
    /\ {val[k] : k \in 1..Len(val)} =
          {i \in 0..(Len(v) - 1) :
              ~v[((i - 1) % Len(v)) + 1] /\ v[i + 1]}

AllTrue(v) == v # <<>> /\ \A i \in 1..Len(v) : v[i]

\* C25 as stated: switch_boolean returns in ascending order exactly the
\* indices with v[(i-1) mod n] false and v[i] true, and as many indices as v
\* has maximal cyclic runs of true.
C25_Original ==
    op = "switch" =>
        /\ IsSwitches(res.boolvector, res.val)
        /\ Len(res.val) = CyclicRuns(res.boolvector)

\* C25 amended: switch_boolean returns in ascending order exactly the
\* indices with v[(i-1) mod n] false and v[i] true; it returns the empty
\* tuple for all-true, all-false and empty vectors, and for every vector that
\* is not all-true as many indices as v has maximal cyclic runs of true.
C25_Switches ==
    op = "switch" =>
        /\ IsSwitches(res.boolvector, res.val)
        /\ (AllTrue(res.boolvector) \/ \A i \in 1..Len(res.boolvector) :
               ~res.boolvector[i]) => res.val = <<>>
        /\ ~AllTrue(res.boolvector) =>
               Len(res.val) = CyclicRuns(res.boolvector)

C25_Witness ==
    /\ op = "switch"
    /\ res.boolvector = <<TRUE, FALSE, TRUE, FALSE>>
    /\ res.val = <<0, 2>>

\* d is c read from another of its elements on
CyclicRotation(c, d) ==
    /\ Len(c) = Len(d)
    /\ c = d \/ \E s \in 1..(Len(c) - 1) : Rotated(c, s) = d

\* The lines with no rotation of theirs before them, in the order of the
\* matrix
FirstOfEachClass(matrix) ==
    LET firsts == SortedInts({k \in 1..Len(matrix) :
                       \A m \in 1..(k - 1) :
                           ~CyclicRotation(matrix[m], matrix[k])})
    IN  [j \in 1..Len(firsts) |-> matrix[firsts[j]]]

\* C26: is_rotation(x, y) is true exactly when y is a cyclic rotation of x,
\* for any sequences, also with repeated elements, and filter_rotations
\* keeps the first path of each rotation class in the order of the input, so
\* that no two kept paths are rotations of one another and every dropped
\* path is a rotation of a kept one.
C26_Rotations ==
    /\ (op = "is_rotation" /\ res.oneobj # <<>>) =>
          res.val = CyclicRotation(res.oneobj, res.other)
    /\ (op = "filter" /\ \A k \in 1..Len(res.matrix) : res.matrix[k] # <<>>) =>
          res.val = FirstOfEachClass(res.matrix)

\* The parameters at which two segments meet, (None, None) for two segments
\* with the same control points
AllPairs(self, other) ==
    UNION {{<<ai - 1, bj - 1, it[1], it[2]>> :
               it \in intersection_bezier(self[ai], other[bj])} :
           <<ai, bj>> \in (1..Len(self)) \X (1..Len(other))}

StrictlyBetween(f) == 0 < f[1] /\ f[1] < f[2]

\* The tuple is a pair of numbers of which one is strictly inside (0, 1)
InnerTuple(t) ==
    t[3] # None /\ (StrictlyBetween(t[3]) \/ StrictlyBetween(t[4]))

\* The elements of the tuple val
Range(val) == {val[k] : k \in 1..Len(val)}

\* What the flags let through of the set of tuples
Remaining(tuples, equal_beziers, end_points) ==
    {t \in tuples :
        /\ t[3] = None => equal_beziers
        /\ (t[3] # None /\ ~InnerTuple(t)) => end_points}

LenghtRead(cached, segments) ==
    IF cached = None THEN JordanCurve_lenght(segments) ELSE cached

\* C28: invert() reverses the order of the segments and the control points
\* of each segment in place, the signed length read from the curve changes
\* its sign, a second invert() would restore the list of segments exactly,
\* and ~curve returns the inverted list and leaves the segments and the
\* signed length of the receiver as they were.
C28_Invert ==
    [][/\ (call' = "invert" /\ ncalls' # ncalls /\ CyclicChain(obj_segments)) =>
            /\ Len(obj_segments') = Len(obj_segments)
            /\ \A i \in 1..Len(obj_segments) :
                  /\ obj_segments'[i][1] =
                        obj_segments[Len(obj_segments) + 1 - i][2]
                  /\ obj_segments'[i][2] =
                        obj_segments[Len(obj_segments) + 1 - i][1]
            /\ JordanCurve_invert(obj_segments') = obj_segments
            /\ LenghtRead(obj_lenght', obj_segments')[1] =
                  -LenghtRead(obj_lenght, obj_segments)[1]
            /\ LenghtRead(obj_lenght', obj_segments')[2] =
                  LenghtRead(obj_lenght, obj_segments)[2]
       /\ (call' = "__invert__" /\ ncalls' # ncalls) =>
            /\ obj_segments' = obj_segments
            /\ LenghtRead(obj_lenght', obj_segments') =
                  LenghtRead(obj_lenght, obj_segments)
            /\ Len(value') = Len(obj_segments)
            /\ \A i \in 1..Len(obj_segments) :
                  /\ value'[i][1] = obj_segments[Len(obj_segments) + 1 - i][2]
                  /\ value'[i][2] = obj_segments[Len(obj_segments) + 1 - i][1]
      ]_vars

\* The call inA & inB of two SimpleShapes goes past the three early returns
\* of SimpleShape.__and__: neither region is in the other and the boundaries
\* have a point in common
ReachesAssertion ==
    /\ op = "and"
    /\ BothSimple
    /\ ~SimpleShape_contains_shape(inB, inA)
    /\ ~SimpleShape_contains_shape(inA, inB)
    /\ JordanCurve_intersection(inA.jordancurve, inB.jordancurve,
                                TRUE, TRUE) # {}

\* C29: on every call of SimpleShape.__and__ that reaches the assertion
\* len(simple_shapes) == 1, for two SimpleShapes of which neither contains
\* the other and whose boundaries share a point, intersection_path returns
\* exactly one boundary, positively oriented, and the call returns its
\* SimpleShape.
C29_OneBoundary ==
    ReachesAssertion => res.kind = "Simple"

\* C30: other in self is a function of the two regions: whichever interior
\* point of other the sampler returns, the answer is the same.
C30_Deterministic ==
    (op = "contains_shape" /\ res.point # None) =>
        \A interior \in interior_point(res.other) :
            ConnectedShape_contains_shape(res.self, res.other, interior)
               = res.val

====
